---- MODULE Spec2Model ----
(***************************************************************************)
(* The DOCX template engine of docx-nodejs: the render pipeline of         *)
(* TemplateEngine.processAdvancedTemplate over the text of the main        *)
(* document part (word/document.xml) and a data object.                    *)
(*                                                                         *)
(* Text is a sequence of one-character strings, so that the scans, the     *)
(* regular expressions and the conversions of the source act on the same   *)
(* characters as the program.  Positions are 1-based; 0 is "not found"     *)
(* (the source's -1).                                                      *)
(*                                                                         *)
(* A JavaScript value is a record [t, v]: t is the type tag, v the         *)
(* payload (a number, a boolean, a text, a sequence of values, or a        *)
(* function from keys to values for an object).                            *)
(***************************************************************************)
EXTENDS Integers, Sequences, FiniteSets, TLC

VARIABLES
    tmpl,   \* the main document part of the template, as uploaded
    data,   \* the data object given to the render
    xml,    \* documentXml / processedXml: the text the pipeline works on
    pc,     \* position of processAdvancedTemplate in its pipeline
    host,   \* number of host-language functions built and run so far
    templateBuffer, \* the template archive given to the generator
    dataArray,      \* the caller's datasets, as they are now
    given,          \* the caller's datasets, as they were when handed over
    batchSize,      \* options.batchSize (0: not given)
    results,        \* results of batchGenerate
    batchResults,   \* results of generateMultipleDocuments
    batchStart,     \* i of batchGenerate
    docIndex,       \* i of generateMultipleDocuments
    mergeIterations, \* iterations of cleanWordXmlLikeLibreOffice
    validation,     \* validation of TemplateValidator.validateTemplate
    scan,           \* the locals of the while loops of processLoops
    batchDelay,     \* options.batchDelay of batchGenerate
    templates,      \* the collection templates of the registry, by _id
    templateFiles,  \* its collection template_files, by templateId
    calls           \* the calls of TemplateManager under way: position, locals

\* the variables of the generator around the template engine
gen == <<templateBuffer, dataArray, given, batchSize, results, batchResults,
         batchStart, docIndex>>

\* the variables of the operations that are followed step by step on
\* their own
merging == <<mergeIterations>>
validating == <<validation>>
scanning == <<scan>>
delaying == <<batchDelay>>
registry == <<templates, templateFiles, calls>>
others == <<merging, validating, scanning, delaying, registry>>

vars == <<tmpl, data, xml, pc, host, gen, others>>

\* a collection without documents
NoDocuments == [q \in {} |-> <<>>]

\* processLoops entered: let startIndex = 0 (positions are counted from 1
\* here, and 0 stands for the -1 of a search that found nothing)
NoScan ==
    [startIndex |-> 1, openIndex |-> 0, openTagEndIndex |-> 0, depth |-> 0,
     currentIndex |-> 0, closeIndex |-> 0]

\* the validation validateTemplate starts from: nothing found yet
NoValidation ==
    [placeholders |-> <<>>, conditions |-> <<>>, loops |-> <<>>, tables |-> <<>>,
     aggregations |-> <<>>, formatting |-> <<>>, statistics |-> <<>>]

-----------------------------------------------------------------------------
(* Characters and text *)

Min(S) == CHOOSE x \in S : \A y \in S : x <= y
Max(S) == CHOOSE x \in S : \A y \in S : x >= y

Digits == <<"0","1","2","3","4","5","6","7","8","9">>
LowerCase == <<"a","b","c","d","e","f","g","h","i","j","k","l","m",
               "n","o","p","q","r","s","t","u","v","w","x","y","z">>
UpperCase == <<"A","B","C","D","E","F","G","H","I","J","K","L","M",
               "N","O","P","Q","R","S","T","U","V","W","X","Y","Z">>

Range(f) == {f[i] : i \in DOMAIN f}

IsDigit(c) == c \in Range(Digits)
IsAlpha(c) == c \in Range(LowerCase) \cup Range(UpperCase)
\* \w of the regular expressions
IsWord(c) == IsAlpha(c) \/ IsDigit(c) \/ c = "_"
\* \s of the regular expressions, and the characters String.trim removes
IsSpace(c) == c \in {" ", "\n", "\t", "\r"}

\* s has p at position i
StartsAt(s, i, p) ==
    /\ i >= 1
    /\ i + Len(p) - 1 <= Len(s)
    /\ \A k \in 1..Len(p) : s[i + k - 1] = p[k]

\* String.indexOf(p, from): first position >= from where p starts, or 0
indexOf(s, p, from) ==
    LET C == {i \in from..(Len(s) - Len(p) + 1) : StartsAt(s, i, p)}
    IN  IF C = {} THEN 0 ELSE Min(C)

includes(s, p) == indexOf(s, p, 1) # 0
startsWith(s, p) == StartsAt(s, 1, p)
endsWith(s, p) == Len(p) <= Len(s) /\ StartsAt(s, Len(s) - Len(p) + 1, p)

\* the characters of s from position a to the end
From(s, a) == SubSeq(s, a, Len(s))

trim(s) ==
    LET N == {i \in 1..Len(s) : ~IsSpace(s[i])}
    IN  IF N = {} THEN <<>> ELSE SubSeq(s, Min(N), Max(N))

\* body with value in the place of its parameter: names a value that the
\* body uses more than once
With(value, body(_)) == body(value)

\* last position of the run of characters of class P that starts at i
\* (i - 1 when s[i] is not of the class)
RunEnd(s, i, P(_)) ==
    LET N == {j \in i..Len(s) : ~P(s[j])}
    IN  IF N = {} THEN Len(s) ELSE Min(N) - 1

\* String.split(c) for a one-character separator
RECURSIVE split(_, _)
split(s, c) ==
    LET i == indexOf(s, <<c>>, 1)
    IN  IF i = 0 THEN <<s>>
        ELSE <<SubSeq(s, 1, i - 1)>> \o split(From(s, i + 1), c)

\* s.replace(/c/g, rep) for a single character c
RECURSIVE replaceChar(_, _, _)
replaceChar(s, c, rep) ==
    LET i == indexOf(s, <<c>>, 1)
    IN  IF i = 0 THEN s
        ELSE SubSeq(s, 1, i - 1) \o rep \o replaceChar(From(s, i + 1), c, rep)

RECURSIVE Concat(_)
Concat(ss) == IF ss = <<>> THEN <<>> ELSE Head(ss) \o Concat(Tail(ss))

\* Array.join(sep) over a sequence of texts
RECURSIVE join(_, _)
join(ss, sep) ==
    IF ss = <<>> THEN <<>>
    ELSE IF Len(ss) = 1 THEN ss[1]
    ELSE ss[1] \o sep \o join(Tail(ss), sep)

-----------------------------------------------------------------------------
(* JavaScript values *)

Undef == [t |-> "undef", v |-> 0]
Null == [t |-> "null", v |-> 0]
Bool(b) == [t |-> "bool", v |-> b]
Num(n) == [t |-> "num", v |-> n]
Str(s) == [t |-> "str", v |-> s]
List(l) == [t |-> "list", v |-> l]
Rec(f) == [t |-> "rec", v |-> f]
\* the { value, formatting } object FormatHelper.applyFormatters returns
\* when a styling formatter was applied
Styled(x) == [t |-> "styled", v |-> x]

\* ToBoolean
Truthy(x) ==
    CASE x.t = "undef" -> FALSE
      [] x.t = "null" -> FALSE
      [] x.t = "bool" -> x.v
      [] x.t = "num" -> x.v # 0
      [] x.t = "str" -> x.v # <<>>
      [] x.t = "nan" -> FALSE
      [] OTHER -> TRUE

DigitVal(c) == (CHOOSE d \in 1..10 : Digits[d] = c) - 1

\* parseInt of a run of digits
RECURSIVE parseDigits(_)
parseDigits(s) ==
    IF s = <<>> THEN 0
    ELSE 10 * parseDigits(SubSeq(s, 1, Len(s) - 1)) + DigitVal(s[Len(s)])

RECURSIVE natToString(_)
natToString(n) ==
    IF n < 10 THEN <<Digits[n + 1]>>
    ELSE natToString(n \div 10) \o <<Digits[(n % 10) + 1]>>

\* Number.prototype.toString of an integer
numToString(n) == IF n < 0 THEN <<"-">> \o natToString(-n) ELSE natToString(n)

\* String(value)
RECURSIVE JsString(_)
JsString(x) ==
    CASE x.t = "undef" -> <<"u","n","d","e","f","i","n","e","d">>
      [] x.t = "null" -> <<"n","u","l","l">>
      [] x.t = "bool" -> IF x.v THEN <<"t","r","u","e">> ELSE <<"f","a","l","s","e">>
      [] x.t = "num" -> numToString(x.v)
      [] x.t = "str" -> x.v
      [] x.t = "nan" -> <<"N","a","N">>
      [] x.t = "list" ->
            join([i \in 1..Len(x.v) |->
                    IF x.v[i].t \in {"null", "undef"} THEN <<>>
                    ELSE JsString(x.v[i])], <<",">>)
      [] OTHER -> <<"[","o","b","j","e","c","t"," ","O","b","j","e","c","t","]">>

\* value[key] for a value that is neither null nor undefined; the members
\* inherited from the prototypes are left out but for length
Prop(x, key) ==
    CASE x.t = "rec" -> IF key \in DOMAIN x.v THEN x.v[key] ELSE Undef
      [] x.t = "list" /\ key = <<"l","e","n","g","t","h">> -> Num(Len(x.v))
      [] x.t = "str" /\ key = <<"l","e","n","g","t","h">> -> Num(Len(x.v))
      [] x.t = "styled" /\ key = <<"v","a","l","u","e">> -> x.v
      [] OTHER -> Undef

-----------------------------------------------------------------------------
(* TemplateEngine.escapeXml *)

escapeXml(text) ==
    replaceChar(
      replaceChar(
        replaceChar(
          replaceChar(
            replaceChar(text, "&", <<"&","a","m","p",";">>),
            "<", <<"&","l","t",";">>),
          ">", <<"&","g","t",";">>),
        "\"", <<"&","q","u","o","t",";">>),
      "'", <<"&","a","p","o","s",";">>)

-----------------------------------------------------------------------------
(* ExpressionEvaluator: path resolution *)

\* path.replace(/\[(\d+)\]/g, '.$1')
RECURSIVE normalizePath(_)
normalizePath(path) ==
    LET i == indexOf(path, <<"[">>, 1)
        D == IF i = 0 THEN {}
             ELSE {j \in (i + 2)..Len(path) :
                     /\ path[j] = "]"
                     /\ \A k \in (i + 1)..(j - 1) : IsDigit(path[k])}
    IN  IF i = 0 THEN path
        ELSE IF D = {} THEN SubSeq(path, 1, i) \o normalizePath(From(path, i + 1))
        ELSE SubSeq(path, 1, i - 1) \o <<".">> \o SubSeq(path, i + 1, Min(D) - 1)
                \o normalizePath(From(path, Min(D) + 1))

\* /^\d+$/.test(key)
IsIndexKey(key) == key # <<>> /\ \A k \in 1..Len(key) : IsDigit(key[k])

\* ExpressionEvaluator.getNestedProperty: the walk over the keys, from
\* the value cur
RECURSIVE walkProperty(_, _)
walkProperty(cur, keys) ==
    IF keys = <<>> THEN cur
    ELSE IF cur.t \in {"null", "undef"} THEN Null
    ELSE IF IsIndexKey(Head(keys))
         THEN IF cur.t = "list" /\ parseDigits(Head(keys)) < Len(cur.v)
              THEN walkProperty(cur.v[parseDigits(Head(keys)) + 1], Tail(keys))
              ELSE Null
    ELSE IF Prop(cur, Head(keys)) # Undef
         THEN walkProperty(Prop(cur, Head(keys)), Tail(keys))
         ELSE Null

getNestedProperty(obj, path) ==
    IF ~Truthy(obj) \/ path = <<>> THEN Null
    ELSE walkProperty(obj, split(normalizePath(path), "."))

\* ExpressionEvaluator.getNestedValue: the walk over the keys
RECURSIVE walkValue(_, _)
walkValue(cur, keys) ==
    IF keys = <<>> THEN cur
    ELSE IF cur.t \in {"null", "undef"} THEN Null
    ELSE IF Head(keys) = <<"t","h","i","s">>
         THEN IF Prop(cur, <<"t","h","i","s">>) # Undef
              THEN walkValue(Prop(cur, <<"t","h","i","s">>), Tail(keys))
              ELSE Null
    ELSE IF IsIndexKey(Head(keys))
         THEN IF cur.t = "list" /\ parseDigits(Head(keys)) < Len(cur.v)
              THEN walkValue(cur.v[parseDigits(Head(keys)) + 1], Tail(keys))
              ELSE Null
    ELSE IF Prop(cur, Head(keys)) # Undef
         THEN walkValue(Prop(cur, Head(keys)), Tail(keys))
         ELSE Null

getNestedValue(obj, path) ==
    IF ~Truthy(obj) \/ path = <<>> THEN Null
    ELSE IF startsWith(path, <<"t","h","i","s",".">>)
         THEN IF Truthy(Prop(obj, <<"t","h","i","s">>))
              THEN getNestedProperty(Prop(obj, <<"t","h","i","s">>), From(path, 6))
              ELSE Null
    ELSE walkValue(obj, split(normalizePath(path), "."))

\* TemplateEngine.getNestedProperty: as the evaluator's, but a missing
\* member is handed on as undefined
RECURSIVE walkLoopProperty(_, _)
walkLoopProperty(cur, keys) ==
    IF keys = <<>> THEN cur
    ELSE IF cur.t \in {"null", "undef"} THEN Null
    ELSE IF IsIndexKey(Head(keys))
         THEN IF cur.t = "list" /\ parseDigits(Head(keys)) < Len(cur.v)
              THEN walkLoopProperty(cur.v[parseDigits(Head(keys)) + 1], Tail(keys))
              ELSE Null
    ELSE walkLoopProperty(Prop(cur, Head(keys)), Tail(keys))

getLoopProperty(obj, path) ==
    IF ~Truthy(obj) \/ path = <<>> THEN Null
    ELSE walkLoopProperty(obj, split(normalizePath(path), "."))

\* /^[a-zA-Z_][a-zA-Z0-9_.$\[\]]*$/.test(s)
IsPathChar(c) == IsWord(c) \/ c \in {".", "$", "[", "]"}
IsSimplePath(s) ==
    /\ s # <<>>
    /\ IsAlpha(s[1]) \/ s[1] = "_"
    /\ \A k \in 2..Len(s) : IsPathChar(s[k])

-----------------------------------------------------------------------------
(* The host language: the JavaScript operators the engine applies to the   *)
(* values of a condition, and the evaluation of the code text that         *)
(* ExpressionEvaluator.safeEvaluate hands to the Function constructor      *)

NaN == [t |-> "nan", v |-> 0]

\* the characters of the model in the order of their character codes
CodeOrder ==
    <<"\t", "\n", "\r", " ", "!", "\"", "#", "$", "%", "&", "'", "(", ")",
      "*", "+", ",", "-", ".", "/">> \o Digits \o
    <<":", ";", "<", "=", ">", "?", "@">> \o UpperCase \o
    <<"[", "\\", "]", "^", "_">> \o LowerCase \o <<"{", "|", "}", "~">>

Ord(c) == CHOOSE i \in 1..Len(CodeOrder) : CodeOrder[i] = c

\* a < b for two texts (comparison by code units)
RECURSIVE textLess(_, _)
textLess(a, b) ==
    IF b = <<>> THEN FALSE
    ELSE IF a = <<>> THEN TRUE
    ELSE IF Head(a) = Head(b) THEN textLess(Tail(a), Tail(b))
    ELSE Ord(Head(a)) < Ord(Head(b))

\* /^-?\d+$/: the numerals the model reads as numbers (integers)
IsIntText(s) ==
    LET d == IF s # <<>> /\ s[1] = "-" THEN Tail(s) ELSE s
    IN  d # <<>> /\ \A k \in 1..Len(d) : IsDigit(d[k])

intOfText(s) == IF s[1] = "-" THEN 0 - parseDigits(Tail(s)) ELSE parseDigits(s)

\* ToNumber
RECURSIVE ToNumber(_)
ToNumber(x) ==
    CASE x.t = "num" -> x
      [] x.t = "null" -> Num(0)
      [] x.t = "bool" -> IF x.v THEN Num(1) ELSE Num(0)
      [] x.t = "str" ->
            IF trim(x.v) = <<>> THEN Num(0)
            ELSE IF IsIntText(trim(x.v)) THEN Num(intOfText(trim(x.v)))
            ELSE NaN
      [] x.t = "list" -> ToNumber(Str(JsString(x)))
      [] OTHER -> NaN

IsObject(x) == x.t \in {"list", "rec", "styled"}

\* a == b; two objects are the same object only when they are one value
\* of the program, which two operands of a condition never are
JsLooseEq(a, b) ==
    IF a.t \in {"null", "undef"} \/ b.t \in {"null", "undef"}
    THEN a.t \in {"null", "undef"} /\ b.t \in {"null", "undef"}
    ELSE IF IsObject(a) /\ IsObject(b) THEN FALSE
    ELSE IF a.t = "str" /\ b.t = "str" THEN a.v = b.v
    ELSE IF IsObject(a) /\ b.t = "str" THEN JsString(a) = b.v
    ELSE IF a.t = "str" /\ IsObject(b) THEN a.v = JsString(b)
    ELSE With(ToNumber(a), LAMBDA x :
         With(ToNumber(b), LAMBDA y :
             x.t = "num" /\ y.t = "num" /\ x.v = y.v))

\* a === b
JsStrictEq(a, b) ==
    /\ a.t = b.t
    /\ ~IsObject(a)
    /\ a.t # "nan"
    /\ a.v = b.v

\* ToPrimitive: an object becomes its text
ToPrimitive(x) == IF IsObject(x) THEN Str(JsString(x)) ELSE x

\* a < b
JsLess(a, b) ==
    With(ToPrimitive(a), LAMBDA pa :
    With(ToPrimitive(b), LAMBDA pb :
        IF pa.t = "str" /\ pb.t = "str" THEN textLess(pa.v, pb.v)
        ELSE With(ToNumber(pa), LAMBDA x :
             With(ToNumber(pb), LAMBDA y :
                 x.t = "num" /\ y.t = "num" /\ x.v < y.v))))

\* a <= b  (not the negation of b < a: false when either side is NaN)
JsLessEq(a, b) ==
    With(ToPrimitive(a), LAMBDA pa :
    With(ToPrimitive(b), LAMBDA pb :
        IF pa.t = "str" /\ pb.t = "str" THEN ~textLess(pb.v, pa.v)
        ELSE With(ToNumber(pa), LAMBDA x :
             With(ToNumber(pb), LAMBDA y :
                 x.t = "num" /\ y.t = "num" /\ x.v <= y.v))))

\* the comparison operators of a condition
Compare(op, a, b) ==
    CASE op = <<">","=">> -> JsLessEq(b, a)
      [] op = <<"<","=">> -> JsLessEq(a, b)
      [] op = <<">">> -> JsLess(b, a)
      [] op = <<"<">> -> JsLess(a, b)
      [] op = <<"=","=">> -> JsLooseEq(a, b)
      [] op = <<"!","=">> -> ~JsLooseEq(a, b)
      [] op = <<"=","=","=">> -> JsStrictEq(a, b)
      [] op = <<"!","=","=">> -> ~JsStrictEq(a, b)

\* the keys of an object, in a fixed order (the order of the code units)
RECURSIVE KeySeq(_)
KeySeq(K) ==
    IF K = {} THEN <<>>
    ELSE LET k == CHOOSE x \in K : \A y \in K \ {x} : textLess(x, y)
         IN  <<k>> \o KeySeq(K \ {k})

jsonEscape(s) ==
    replaceChar(
      replaceChar(
        replaceChar(
          replaceChar(
            replaceChar(s, "\\", <<"\\","\\">>),
            "\"", <<"\\","\"">>),
          "\n", <<"\\","n">>),
        "\r", <<"\\","r">>),
      "\t", <<"\\","t">>)

\* JSON.stringify
RECURSIVE jsonStringify(_)
jsonStringify(x) ==
    CASE x.t \in {"null", "undef", "nan"} -> <<"n","u","l","l">>
      [] x.t = "bool" -> JsString(x)
      [] x.t = "num" -> JsString(x)
      [] x.t = "str" -> <<"\"">> \o jsonEscape(x.v) \o <<"\"">>
      [] x.t = "list" ->
            <<"[">> \o join([i \in 1..Len(x.v) |-> jsonStringify(x.v[i])], <<",">>)
                \o <<"]">>
      [] x.t = "rec" ->
            LET ks == KeySeq({k \in DOMAIN x.v : x.v[k] # Undef})
            IN  <<"{">> \o
                join([i \in 1..Len(ks) |->
                        <<"\"">> \o jsonEscape(ks[i]) \o <<"\"",":">>
                            \o jsonStringify(x.v[ks[i]])], <<",">>)
                \o <<"}">>
      [] OTHER -> <<"{","}">>

\* ExpressionEvaluator.serializeValue
serializeValue(value) ==
    CASE value.t \in {"null", "undef"} -> <<"n","u","l","l">>
      [] value.t = "str" ->
            <<"\"">> \o replaceChar(value.v, "\"", <<"\\","\"">>) \o <<"\"">>
      [] value.t \in {"num", "bool"} -> JsString(value)
      [] value.t = "nan" -> <<"N","a","N">>
      [] OTHER -> jsonStringify(value)

\* first position >= i of s that holds no white space (Len(s) + 1 at the end)
skipWs(s, i) ==
    LET N == {j \in i..Len(s) : ~IsSpace(s[j])}
    IN  IF N = {} THEN Len(s) + 1 ELSE Min(N)

\* position of the quote that closes the string literal opened by the
\* quote q before position i, or 0 when the literal is not closed on its line
RECURSIVE stringEnd(_, _, _)
stringEnd(s, i, q) ==
    IF i > Len(s) \/ s[i] \in {"\n", "\r"} THEN 0
    ELSE IF s[i] = q THEN i
    ELSE IF s[i] = "\\" THEN stringEnd(s, i + 2, q)
    ELSE stringEnd(s, i + 1, q)

\* the text a string literal with the characters s between its quotes denotes
RECURSIVE unescape(_)
unescape(s) ==
    IF s = <<>> THEN <<>>
    ELSE IF s[1] = "\\" /\ Len(s) >= 2
         THEN <<CASE s[2] = "n" -> "\n"
                  [] s[2] = "t" -> "\t"
                  [] s[2] = "r" -> "\r"
                  [] OTHER -> s[2]>> \o unescape(From(s, 3))
    ELSE <<s[1]>> \o unescape(Tail(s))

NoLit == [ok |-> FALSE, val |-> Null, nx |-> 0]
Lit(x, nx) == [ok |-> TRUE, val |-> x, nx |-> nx]

\* the keyword w stands at position i of s
WordAt(s, i, w) ==
    /\ StartsAt(s, i, w)
    /\ i + Len(w) > Len(s) \/ ~(IsWord(s[i + Len(w)]) \/ s[i + Len(w)] = "$")

\* The literal of the host language that starts at position i of s: a
\* keyword, an integer, a string, an array or an object of literals.
\* [ok, val, nx]: whether there is one, its value, the position after it.
RECURSIVE jsLiteral(_, _), jsElements(_, _, _), jsMembers(_, _, _)
jsLiteral(s, i) ==
    IF i > Len(s) THEN NoLit
    ELSE IF WordAt(s, i, <<"n","u","l","l">>) THEN Lit(Null, i + 4)
    ELSE IF WordAt(s, i, <<"t","r","u","e">>) THEN Lit(Bool(TRUE), i + 4)
    ELSE IF WordAt(s, i, <<"f","a","l","s","e">>) THEN Lit(Bool(FALSE), i + 5)
    ELSE IF WordAt(s, i, <<"u","n","d","e","f","i","n","e","d">>) THEN Lit(Undef, i + 9)
    ELSE IF WordAt(s, i, <<"N","a","N">>) THEN Lit(NaN, i + 3)
    ELSE IF IsDigit(s[i]) \/ (s[i] = "-" /\ i < Len(s) /\ IsDigit(s[i + 1]))
         THEN With(RunEnd(s, IF s[i] = "-" THEN i + 1 ELSE i, IsDigit) + 1, LAMBDA e :
                  IF e <= Len(s) /\ (IsWord(s[e]) \/ s[e] \in {".", "$"})
                  THEN NoLit
                  ELSE Lit(Num(intOfText(SubSeq(s, i, e - 1))), e))
    ELSE IF s[i] \in {"\"", "'"}
         THEN With(stringEnd(s, i + 1, s[i]), LAMBDA e :
                  IF e = 0 THEN NoLit
                  ELSE Lit(Str(unescape(SubSeq(s, i + 1, e - 1))), e + 1))
    ELSE IF s[i] = "["
         THEN With(skipWs(s, i + 1), LAMBDA j :
                  IF j <= Len(s) /\ s[j] = "]" THEN Lit(List(<<>>), j + 1)
                  ELSE jsElements(s, j, <<>>))
    ELSE IF s[i] = "{"
         THEN With(skipWs(s, i + 1), LAMBDA j :
                  IF j <= Len(s) /\ s[j] = "}" THEN Lit(Rec(<<>>), j + 1)
                  ELSE jsMembers(s, j, <<>>))
    ELSE NoLit

\* the elements of an array literal from position i on, after the elements acc
jsElements(s, i, acc) ==
    With(jsLiteral(s, i), LAMBDA el :
    With(skipWs(s, el.nx), LAMBDA j :
        IF ~el.ok \/ j > Len(s) THEN NoLit
        ELSE IF s[j] = "]" THEN Lit(List(Append(acc, el.val)), j + 1)
        ELSE IF s[j] = "," THEN jsElements(s, skipWs(s, j + 1), Append(acc, el.val))
        ELSE NoLit))

\* the members "key": value of an object literal from position i on
jsMembers(s, i, acc) ==
    With(jsLiteral(s, i), LAMBDA key :
    With(skipWs(s, key.nx), LAMBDA c :
    With(jsLiteral(s, skipWs(s, c + 1)), LAMBDA el :
    With(skipWs(s, el.nx), LAMBDA j :
        IF ~key.ok \/ key.val.t # "str" \/ c > Len(s) THEN NoLit
        ELSE IF s[c] # ":" \/ ~el.ok \/ j > Len(s) THEN NoLit
        ELSE IF s[j] = "}" THEN Lit(Rec(acc @@ (key.val.v :> el.val)), j + 1)
        ELSE IF s[j] = "," THEN jsMembers(s, skipWs(s, j + 1), acc @@ (key.val.v :> el.val))
        ELSE NoLit))))

\* a literal with any number of ! before it
RECURSIVE jsUnary(_, _)
jsUnary(s, i) ==
    IF i <= Len(s) /\ s[i] = "!" /\ ~StartsAt(s, i, <<"!","=">>)
    THEN With(jsUnary(s, skipWs(s, i + 1)), LAMBDA r :
             IF r.ok THEN Lit(Bool(~Truthy(r.val)), r.nx) ELSE NoLit)
    ELSE jsLiteral(s, i)

\* the binary operators of the host language the model evaluates, the
\* longer ones first
BinaryOps == <<<<"=","=","=">>, <<"!","=","=">>, <<"=","=">>, <<"!","=">>, <<">","=">>, <<"<","=">>,
               <<"&","&">>, <<"|","|">>, <<">">>, <<"<">>>>

opAt(s, i) ==
    LET C == {k \in 1..Len(BinaryOps) : StartsAt(s, i, BinaryOps[k])}
    IN  IF C = {} THEN <<>> ELSE BinaryOps[Min(C)]

\* The value of the host-language function with the body "return (code);".
\* The model evaluates the expressions  u  and  u op u  where u is a literal
\* under any number of ! ; any other code text stands for code the host
\* rejects or that throws, which safeEvaluate turns into null.
hostEvaluate(code) ==
    With(jsUnary(code, skipWs(code, 1)), LAMBDA a :
    With(skipWs(code, a.nx), LAMBDA i :
    With(opAt(code, i), LAMBDA op :
    With(jsUnary(code, skipWs(code, i + Len(op))), LAMBDA b :
        IF ~a.ok THEN Null
        ELSE IF i > Len(code) THEN a.val
        ELSE IF op = <<>> \/ ~b.ok \/ skipWs(code, b.nx) <= Len(code) THEN Null
        ELSE IF op = <<"&","&">> THEN (IF Truthy(a.val) THEN b.val ELSE a.val)
        ELSE IF op = <<"|","|">> THEN (IF Truthy(a.val) THEN a.val ELSE b.val)
        ELSE Bool(Compare(op, a.val, b.val))))))

\* ExpressionEvaluator.safeEvaluate
safeEvaluate(expression) == hostEvaluate(expression)

-----------------------------------------------------------------------------
(* Replacing the matches of a regular expression *)

\* s with each span reps[k].b .. reps[k].e replaced by the text reps[k].r;
\* the spans are in increasing order and do not overlap
RECURSIVE Splice(_, _)
Splice(s, reps) ==
    IF reps = <<>> THEN s
    ELSE With(reps[Len(reps)], LAMBDA r :
             Splice(SubSeq(s, 1, r.b - 1), SubSeq(reps, 1, Len(reps) - 1))
                \o r.r \o From(s, r.e + 1))

\* \b before position i, for a pattern that starts with a word character
BoundaryBefore(s, i) == i = 1 \/ ~IsWord(s[i - 1])
\* \b after position e, for a pattern that ends with a word character
BoundaryAfter(s, e) == e = Len(s) \/ ~IsWord(s[e + 1])

\* the matches of /\bw\b/g in s, for a text w that starts and ends with a
\* word character: the sequence of the positions where they start
RECURSIVE wordMatches(_, _, _)
wordMatches(s, w, from) ==
    With({i \in from..(Len(s) - Len(w) + 1) :
                /\ StartsAt(s, i, w)
                /\ BoundaryBefore(s, i)
                /\ BoundaryAfter(s, i + Len(w) - 1)}, LAMBDA C :
        IF C = {} THEN <<>>
        ELSE With(Min(C), LAMBDA i : <<i>> \o wordMatches(s, w, i + Len(w))))

\* s.replace(/\bw\b/g, rep)
replaceWord(s, w, rep) ==
    With(wordMatches(s, w, 1), LAMBDA ms :
        Splice(s, [k \in 1..Len(ms) |->
                     [b |-> ms[k], e |-> ms[k] + Len(w) - 1, r |-> rep]]))

IsWordOrDot(c) == IsWord(c) \/ c = "."

\* End of the group after "this." at position j, for the three patterns
\* of the source (0 when the group does not match):
\*   "w"    (\w+)                       TemplateEngine.processConditions
\*   "id"   ([a-zA-Z_][a-zA-Z0-9_]*)\b  ExpressionEvaluator.evaluateCondition
\*   "path" ([a-zA-Z0-9_.]+)\b          TemplateEngine.evaluateConditionInLoop
thisGroupEnd(s, j, kind) ==
    IF j > Len(s) THEN 0
    ELSE IF kind = "w" THEN (IF IsWord(s[j]) THEN RunEnd(s, j, IsWord) ELSE 0)
    ELSE IF kind = "id"
         THEN (IF IsAlpha(s[j]) \/ s[j] = "_" THEN RunEnd(s, j, IsWord) ELSE 0)
    ELSE With({k \in j..RunEnd(s, j, IsWordOrDot) : IsWord(s[k])}, LAMBDA W :
             IF W = {} THEN 0 ELSE Max(W))

\* the matches of /\bthis\.(group)/g from position from on: [b, e, g] with
\* the span of the match and the text of the group
RECURSIVE thisMatches(_, _, _)
thisMatches(s, kind, from) ==
    With({i \in from..(Len(s) - 5) :
                /\ StartsAt(s, i, <<"t","h","i","s",".">>)
                /\ BoundaryBefore(s, i)
                /\ thisGroupEnd(s, i + 5, kind) # 0}, LAMBDA C :
        IF C = {} THEN <<>>
        ELSE With(Min(C), LAMBDA i :
             With(thisGroupEnd(s, i + 5, kind), LAMBDA e :
                <<[b |-> i, e |-> e, g |-> SubSeq(s, i + 5, e)]>>
                    \o thisMatches(s, kind, e + 1))))

-----------------------------------------------------------------------------
(* ExpressionEvaluator: expressions and conditions.  The operators that   *)
(* may reach safeEvaluate give [v, h]: the value, and how many functions  *)
(* of the host language were built on the way.                            *)

isJavaScriptKeyword(word) ==
    word \in {<<"t","r","u","e">>, <<"f","a","l","s","e">>, <<"n","u","l","l">>, <<"u","n","d","e","f","i","n","e","d">>, <<"M","a","t","h">>, <<"D","a","t","e">>,
              <<"p","a","r","s","e","I","n","t">>, <<"p","a","r","s","e","F","l","o","a","t">>, <<"i","s","N","a","N">>, <<"i","s","F","i","n","i","t","e">>, <<"t","y","p","e","o","f">>,
              <<"i","n","s","t","a","n","c","e","o","f">>}

\* the matches of /\b([a-zA-Z_][a-zA-Z0-9_.$\[\]]*)\b/g, in order
RECURSIVE variableRefs(_, _)
variableRefs(s, from) ==
    With({i \in from..Len(s) :
                (IsAlpha(s[i]) \/ s[i] = "_") /\ BoundaryBefore(s, i)}, LAMBDA C :
        IF C = {} THEN <<>>
        ELSE With(Min(C), LAMBDA i :
             With(Max({k \in i..RunEnd(s, i, IsPathChar) : IsWord(s[k])}), LAMBDA e :
                <<SubSeq(s, i, e)>> \o variableRefs(s, e + 1))))

\* matches.sort((a, b) => b[0].length - a[0].length): longest first, the
\* order of equal lengths kept
RECURSIVE sortByLength(_)
sortByLength(ms) ==
    IF ms = <<>> THEN <<>>
    ELSE With(Max({Len(ms[k]) : k \in 1..Len(ms)}), LAMBDA L :
             SelectSeq(ms, LAMBDA m : Len(m) = L)
                \o sortByLength(SelectSeq(ms, LAMBDA m : Len(m) # L)))

\* the loop of evaluateComplexExpression over the sorted matches
RECURSIVE substituteVariables(_, _, _)
substituteVariables(processedExpression, matches, d) ==
    IF matches = <<>> THEN processedExpression
    ELSE IF isJavaScriptKeyword(Head(matches))
         THEN substituteVariables(processedExpression, Tail(matches), d)
    ELSE With(replaceWord(processedExpression, Head(matches),
                          serializeValue(getNestedValue(d, Head(matches)))),
              LAMBDA replaced :
                \* (the test makes the text be computed before the next match is taken)
                IF Len(replaced) >= 0 THEN substituteVariables(replaced, Tail(matches), d)
                ELSE replaced)

evaluateComplexExpression(expression, d) ==
    [v |-> safeEvaluate(
              substituteVariables(expression,
                                  sortByLength(variableRefs(expression, 1)), d)),
     h |-> 1]

evaluate(expression, d) ==
    IF expression = <<>> THEN [v |-> Null, h |-> 0]
    ELSE IF IsSimplePath(trim(expression))
         THEN [v |-> getNestedValue(d, trim(expression)), h |-> 0]
    ELSE evaluateComplexExpression(expression, d)

normalizeCondition(condition) ==
    replaceWord(
      replaceWord(
        replaceWord(
          replaceWord(
            replaceWord(
              replaceWord(condition, <<"a","n","d">>, <<"&","&">>),
              <<"o","r">>, <<"|","|">>),
            <<"n","o","t">>, <<"!">>),
          <<"i","s">>, <<"=","=">>),
        <<"i","s","n","'","t">>, <<"!","=">>),
      <<"e","q","u","a","l","s">>, <<"=","=">>)

evaluateCondition(condition, d) ==
    With(normalizeCondition(condition), LAMBDA normalizedCondition :
    With(thisMatches(normalizedCondition, "id", 1), LAMBDA ms :
    With(Prop(d, <<"t","h","i","s">>), LAMBDA this :
        evaluateComplexExpression(
            Splice(normalizedCondition,
                   [k \in 1..Len(ms) |->
                      [b |-> ms[k].b, e |-> ms[k].e,
                       r |-> IF Truthy(this) /\ Prop(this, ms[k].g) # Undef
                             THEN serializeValue(Prop(this, ms[k].g))
                             ELSE <<"n","u","l","l">>]]),
            d))))

-----------------------------------------------------------------------------
(* FormatHelper *)

toUpperCase(s) ==
    [k \in 1..Len(s) |->
        IF s[k] \in Range(LowerCase)
        THEN UpperCase[CHOOSE i \in 1..Len(LowerCase) : LowerCase[i] = s[k]]
        ELSE s[k]]

toLowerCase(s) ==
    [k \in 1..Len(s) |->
        IF s[k] \in Range(UpperCase)
        THEN LowerCase[CHOOSE i \in 1..Len(UpperCase) : UpperCase[i] = s[k]]
        ELSE s[k]]

\* the names setupDefaultFormatters registers that the model applies
KnownFormatters ==
    {<<"u","p","p","e","r">>, <<"l","o","w","e","r">>, <<"t","r","i","m">>, <<"l","e","n","g","t","h">>, <<"d","e","f","a","u","l","t">>, <<"e","s","c","a","p","e">>,
     <<"b","o","l","d">>, <<"i","t","a","l","i","c">>, <<"u","n","d","e","r","l","i","n","e">>, <<"s","i","z","e">>, <<"c","o","l","o","r">>,
     <<"c","u","r","r","e","n","c","y">>, <<"n","u","m","b","e","r">>}

\* the formatters that return { value, format: {...} }
StylingFormatters == {<<"b","o","l","d">>, <<"i","t","a","l","i","c">>, <<"u","n","d","e","r","l","i","n","e">>, <<"s","i","z","e">>, <<"c","o","l","o","r">>}

\* the registered formatters the model has no definition for: a template
\* of the model that names one is an error of the model, not a pass-through
OtherFormatters ==
    {<<"c","a","p","i","t","a","l","i","z","e">>, <<"p","e","r","c","e","n","t">>, <<"r","o","u","n","d">>, <<"d","a","t","e">>,
     <<"d","a","t","e","T","i","m","e">>, <<"f","r","o","m","N","o","w">>, <<"j","o","i","n">>, <<"s","u","m">>, <<"c","o","u","n","t">>, <<"a","v","g">>,
     <<"t","r","u","n","c","a","t","e">>}

\* Number(value) || 0
numberOrZero(value) ==
    With(ToNumber(value), LAMBDA num : IF Truthy(num) THEN num.v ELSE 0)

\* the digits of n in groups of three, as the en-US locale writes them
RECURSIVE grouped(_)
grouped(n) ==
    IF n < 1000 THEN natToString(n)
    ELSE grouped(n \div 1000) \o <<",">>
            \o SubSeq(natToString(1000 + (n % 1000)), 2, 4)

\* the sign the en-US locale puts before an amount in the currency code
currencySymbol(code) ==
    CASE code = <<"U","S","D">> -> <<"$">>
      [] code = <<"C","A","D">> -> <<"C","A","$">>
      [] code = <<"A","U","D">> -> <<"A","$">>

\* new Intl.NumberFormat('en-US', { style: 'currency', currency }).format(num)
\* for an integer num
formatCurrency(currency, num) ==
    (IF num < 0 THEN <<"-">> ELSE <<>>)
        \o currencySymbol(currency)
        \o grouped(IF num < 0 THEN -num ELSE num) \o <<".","0","0">>

\* num.toFixed(decimals) for an integer num
toFixed(num, decimals) ==
    numToString(num)
        \o (IF decimals > 0 THEN <<".">> \o [k \in 1..decimals |-> "0"] ELSE <<>>)

\* the parameter options = {} of currency and number: the first argument
\* of the call, a text, when there is one
optionsOf(args) == IF args = <<>> THEN Rec(<<>>) ELSE Str(args[1])

\* options.currency || 'USD'
currencyOf(options) ==
    IF Truthy(Prop(options, <<"c","u","r","r","e","n","c","y">>))
    THEN JsString(Prop(options, <<"c","u","r","r","e","n","c","y">>)) ELSE <<"U","S","D">>

\* options.decimals !== undefined ? options.decimals : 2
decimalsOf(options) ==
    IF Prop(options, <<"d","e","c","i","m","a","l","s">>) # Undef
    THEN Prop(options, <<"d","e","c","i","m","a","l","s">>) ELSE Num(2)

\* formatter(result, ...args) for a registered, non-styling formatter
applyFormatter(name, value, args) ==
    CASE name = <<"u","p","p","e","r">> -> Str(toUpperCase(JsString(value)))
      [] name = <<"l","o","w","e","r">> -> Str(toLowerCase(JsString(value)))
      [] name = <<"t","r","i","m">> -> Str(trim(JsString(value)))
      [] name = <<"l","e","n","g","t","h">> ->
            IF value.t \in {"list", "str"} THEN Num(Len(value.v)) ELSE Num(0)
      [] name = <<"d","e","f","a","u","l","t">> ->
            IF value.t \in {"null", "undef"} \/ value = Str(<<>>)
            THEN (IF args = <<>> THEN Str(<<>>) ELSE Str(args[1]))
            ELSE value
      [] name = <<"e","s","c","a","p","e">> -> Str(escapeXml(JsString(value)))
      [] name = <<"c","u","r","r","e","n","c","y">> ->
            Str(formatCurrency(currencyOf(optionsOf(args)), numberOrZero(value)))
      [] name = <<"n","u","m","b","e","r">> ->
            Str(toFixed(numberOrZero(value), ToNumber(decimalsOf(optionsOf(args))).v))

\* formattedResult && typeof formattedResult === 'object' &&
\* formattedResult.format
hasFormat(r) == r.t = "rec" /\ Truthy(Prop(r, <<"f","o","r","m","a","t">>))

\* Object.keys({ ...format }).length > 0
hasKeys(format) ==
    \/ format.t = "rec" /\ DOMAIN format.v # {}
    \/ format.t \in {"list", "str"} /\ format.v # <<>>

\* a loop that gives up at the first name that is not registered
RECURSIVE formatLoopUntilUnknown(_, _, _)
formatLoopUntilUnknown(result, styled, fs) ==
    IF fs = <<>> THEN [result |-> result, styled |-> styled]
    ELSE With(trim(split(Head(fs), ":")[1]), LAMBDA name :
             IF name \in StylingFormatters
                THEN formatLoopUntilUnknown(result, TRUE, Tail(fs))
             ELSE IF name \in KnownFormatters \cup OtherFormatters
                THEN formatLoopUntilUnknown(applyFormatter(name, result, <<>>),
                                            styled, Tail(fs))
             ELSE [result |-> result, styled |-> styled])

\* the loop of applyFormatters: [result, styled] after the formatters fs
RECURSIVE formatLoop(_, _, _)
formatLoop(result, styled, fs) ==
    IF fs = <<>> THEN [result |-> result, styled |-> styled]
    ELSE With(split(Head(fs), ":"), LAMBDA parts :
         With(trim(parts[1]), LAMBDA name :
             IF name \in StylingFormatters
                THEN formatLoop(result, TRUE, Tail(fs))
             ELSE IF name \in KnownFormatters \cup OtherFormatters
                THEN With(applyFormatter(name, result,
                              [k \in 1..(Len(parts) - 1) |-> trim(parts[k + 1])]),
                          LAMBDA r :
                            IF hasFormat(r)
                            THEN formatLoop(Prop(r, <<"v","a","l","u","e">>),
                                            styled \/ hasKeys(Prop(r, <<"f","o","r","m","a","t">>)),
                                            Tail(fs))
                            ELSE formatLoop(r, styled, Tail(fs)))
             ELSE formatLoop(result, styled, Tail(fs))))

applyFormatters(value, formatters) ==
    With(formatLoop(value, FALSE, formatters), LAMBDA r :
        IF r.styled THEN Styled(r.result) ELSE r.result)

-----------------------------------------------------------------------------
(* TemplateEngine: interpolations *)

\* the matches of /\$\{([^}]+)\}/g from position from on: [b, e, g]
RECURSIVE variableMatches(_, _)
variableMatches(s, from) ==
    With({i \in from..(Len(s) - 3) :
                /\ StartsAt(s, i, <<"$","{">>)
                /\ s[i + 2] # "}"
                /\ indexOf(s, <<"}">>, i + 3) # 0}, LAMBDA C :
        IF C = {} THEN <<>>
        ELSE With(Min(C), LAMBDA i :
             With(indexOf(s, <<"}">>, i + 3), LAMBDA e :
                <<[b |-> i, e |-> e, g |-> SubSeq(s, i + 2, e - 1)]>>
                    \o variableMatches(s, e + 1))))

\* const parts = expression.split('|'); parts[0].trim()
varPathOf(expression) == trim(split(expression, "|")[1])
\* parts.slice(1).map(f => f.trim())
formattersOf(expression) ==
    With(split(expression, "|"), LAMBDA parts :
        [k \in 1..(Len(parts) - 1) |-> trim(parts[k + 1])])

\* the value after the formatters, shared by the three variable passes
formatted(value, formatters) ==
    IF formatters # <<>> THEN applyFormatters(value, formatters) ELSE value

\* the value under the styling of bold, italic or underline, which give
\* { text: String(value), bold: true }: the passes take .text of it
Unstyled(value) == IF value.t = "styled" THEN value.v ELSE value

\* value || ''
OrEmpty(value) == IF Truthy(value) THEN value ELSE Str(<<>>)

\* the callback of processRemainingVariables: [s, h], the text that
\* replaces the match and the host functions built
remainingVariable(match, expression, d) ==
    IF \/ includes(expression, <<"#","e","a","c","h">>) \/ includes(expression, <<"#","i","f">>)
       \/ includes(expression, <<"/","e","a","c","h">>) \/ includes(expression, <<"/","i","f">>)
    THEN [s |-> match, h |-> 0]
    ELSE IF startsWith(varPathOf(expression), <<"t","h","i","s",".">>)
    THEN [s |-> <<>>, h |-> 0]
    ELSE With(evaluate(varPathOf(expression), d), LAMBDA ev :
         With(formatted(ev.v, formattersOf(expression)), LAMBDA value :
             [s |-> escapeXml(JsString(OrEmpty(Unstyled(value)))),
              h |-> ev.h]))

\* sum of the h of a sequence of [s, h]
RECURSIVE SumH(_)
SumH(rs) == IF rs = <<>> THEN 0 ELSE Head(rs).h + SumH(Tail(rs))

\* xml.replace(regex, callback), given the matches ms and what the
\* callback gave for each, cb
Replaced(s, ms, cb) ==
    [s |-> Splice(s, [k \in 1..Len(ms) |->
                        [b |-> ms[k].b, e |-> ms[k].e, r |-> cb[k].s]]),
     h |-> SumH(cb)]

processRemainingVariables(x, d) ==
    With(variableMatches(x, 1), LAMBDA ms :
        Replaced(x, ms,
                 [k \in 1..Len(ms) |->
                    remainingVariable(SubSeq(x, ms[k].b, ms[k].e), ms[k].g, d)]))

\* the callback of processVariablesInLoop
variableInLoop(match, expression, d) ==
    IF \/ startsWith(trim(expression), <<"#","e","a","c","h">>)
       \/ startsWith(trim(expression), <<"#","i","f">>)
       \/ startsWith(trim(expression), <<"/","e","a","c","h">>)
       \/ startsWith(trim(expression), <<"/","i","f">>)
    THEN [s |-> match, h |-> 0]
    ELSE With(varPathOf(expression), LAMBDA varPath :
         With(IF startsWith(varPath, <<"t","h","i","s",".">>)
                 THEN [v |-> getLoopProperty(Prop(d, <<"t","h","i","s">>), From(varPath, 6)),
                       h |-> 0]
              ELSE IF varPath \in {<<"t","h","i","s">>, <<"i","n","d","e","x">>, <<"f","i","r","s","t">>, <<"l","a","s","t">>,
                                   <<"c","o","u","n","t">>}
                 THEN [v |-> Prop(d, varPath), h |-> 0]
              ELSE evaluate(varPath, d), LAMBDA ev :
         With(formatted(ev.v, formattersOf(expression)), LAMBDA value :
             [s |-> IF value.t = "styled"
                    THEN escapeXml(JsString(OrEmpty(value.v)))
                    ELSE IF value.t \in {"undef", "null"} THEN <<>>
                    ELSE escapeXml(JsString(value)),
              h |-> ev.h])))

processVariablesInLoop(x, d) ==
    With(variableMatches(x, 1), LAMBDA ms :
        Replaced(x, ms,
                 [k \in 1..Len(ms) |->
                    variableInLoop(SubSeq(x, ms[k].b, ms[k].e), ms[k].g, d)]))

-----------------------------------------------------------------------------
(* TemplateEngine: conditions *)

\* Start of what ends the then-branch of the #if whose opening tag ends
\* at position c: the first position p > c that holds ${#else} with a
\* ${/if} after it, or that holds ${/if}; 0 when there is none
branchEnd(s, c) ==
    With({p \in (c + 1)..Len(s) :
                \/ StartsAt(s, p, <<"$","{","#","e","l","s","e","}">>) /\ indexOf(s, <<"$","{","/","i","f","}">>, p + 8) # 0
                \/ StartsAt(s, p, <<"$","{","/","i","f","}">>)}, LAMBDA C :
        IF C = {} THEN 0 ELSE Min(C))

\* the matches of
\*   /\$\{#if\s+([^}]+)\}([\s\S]*?)(?:\$\{#else\}([\s\S]*?))?\$\{\/if\}/g
\* from position from on: [b, e, condition, ifContent, elseContent]
RECURSIVE conditionMatches(_, _)
conditionMatches(s, from) ==
    With({i \in from..(Len(s) - 7) :
                /\ StartsAt(s, i, <<"$","{","#","i","f">>)
                /\ IsSpace(s[i + 5])
                /\ indexOf(s, <<"}">>, i + 7) = indexOf(s, <<"}">>, i + 5)
                /\ indexOf(s, <<"}">>, i + 7) # 0
                /\ branchEnd(s, indexOf(s, <<"}">>, i + 7)) # 0}, LAMBDA C :
        IF C = {} THEN <<>>
        ELSE With(Min(C), LAMBDA i :
             With(indexOf(s, <<"}">>, i + 7), LAMBDA c :
             With(RunEnd(s, i + 5, IsSpace), LAMBDA w :
             With(branchEnd(s, c), LAMBDA p :
             With(indexOf(s, <<"$","{","/","i","f","}">>, p + 8), LAMBDA q :
             With(StartsAt(s, p, <<"$","{","#","e","l","s","e","}">>), LAMBDA hasElse :
             With(IF hasElse THEN q + 5 ELSE p + 5, LAMBDA e :
                <<[b |-> i, e |-> e,
                   condition |-> IF w < c - 1 THEN SubSeq(s, w + 1, c - 1)
                                 ELSE SubSeq(s, c - 1, c - 1),
                   ifContent |-> SubSeq(s, c + 1, p - 1),
                   elseContent |-> IF hasElse THEN SubSeq(s, p + 8, q - 1) ELSE <<>>]>>
                \o conditionMatches(s, e + 1)))))))))

\* the callback of processConditions
topCondition(m, d) ==
    With(thisMatches(m.condition, "w", 1), LAMBDA ms :
    With(Prop(d, <<"t","h","i","s">>), LAMBDA this :
    With(Splice(m.condition,
                [k \in 1..Len(ms) |->
                   [b |-> ms[k].b, e |-> ms[k].e,
                    r |-> IF Truthy(this) /\ Prop(this, ms[k].g) # Undef
                          THEN (IF Prop(this, ms[k].g).t = "str"
                                THEN <<"\"">> \o Prop(this, ms[k].g).v \o <<"\"">>
                                ELSE JsString(Prop(this, ms[k].g)))
                          ELSE <<"n","u","l","l">>]]), LAMBDA processedCondition :
    With(evaluateCondition(processedCondition, d), LAMBDA result :
        [s |-> IF Truthy(result.v) THEN m.ifContent ELSE m.elseContent,
         h |-> result.h]))))

processConditions(x, d) ==
    With(conditionMatches(x, 1), LAMBDA ms :
        Replaced(x, ms, [k \in 1..Len(ms) |-> topCondition(ms[k], d)]))

NoLineBreak(s) == \A k \in 1..Len(s) : s[k] \notin {"\n", "\r"}

\* the operators of the comparison pattern, in the order of its alternation
LoopOps == <<<<">","=">>, <<"<","=">>, <<"=","=">>, <<"!","=">>, <<">">>, <<"<">>>>

\* what may follow the operator in the comparison pattern: \s*(.+?)$
RightOk(r) ==
    /\ r # <<>>
    /\ IF skipWs(r, 1) <= Len(r) THEN NoLineBreak(From(r, skipWs(r, 1)))
       ELSE r[Len(r)] \notin {"\n", "\r"}

\* index in LoopOps of the operator the pattern takes when its left group
\* is the first k characters of s (0 when it cannot match there)
opIndexAfter(s, k) ==
    With(skipWs(s, k + 1), LAMBDA j :
    With({n \in 1..Len(LoopOps) :
                /\ StartsAt(s, j, LoopOps[n])
                /\ RightOk(From(s, j + Len(LoopOps[n])))}, LAMBDA C :
        IF C = {} THEN 0 ELSE Min(C)))

\* processedCondition.match(/^(.+?)\s*(>=|<=|==|!=|>|<)\s*(.+?)$/):
\* [ok, left, operator, right], left and right trimmed as the caller does
comparisonMatch(s) ==
    With({k \in 1..Len(s) :
                NoLineBreak(SubSeq(s, 1, k)) /\ opIndexAfter(s, k) # 0}, LAMBDA K :
        IF K = {} THEN [ok |-> FALSE, left |-> <<>>, operator |-> <<>>, right |-> <<>>]
        ELSE With(Min(K), LAMBDA k :
             With(LoopOps[opIndexAfter(s, k)], LAMBDA op :
                [ok |-> TRUE, left |-> trim(SubSeq(s, 1, k)), operator |-> op,
                 right |-> trim(From(s, skipWs(s, k + 1) + Len(op)))])))

\* /^-?\d+\.?\d*$/.test(s)
IsNumberText(s) ==
    With(IF s # <<>> /\ s[1] = "-" THEN Tail(s) ELSE s, LAMBDA d :
    With(RunEnd(d, 1, IsDigit), LAMBDA n :
    With(IF n < Len(d) /\ d[n + 1] = "." THEN n + 1 ELSE n, LAMBDA f :
        n >= 1 /\ \A k \in (f + 1)..Len(d) : IsDigit(d[k]))))

\* parseFloat of a text that passed IsNumberText.  The numbers of the model
\* are integers: a numeral with a fraction other than zero has no value here.
parseFloat(s) ==
    With(indexOf(s, <<".">>, 1), LAMBDA dot :
        CASE dot = 0 \/ \A k \in (dot + 1)..Len(s) : s[k] = "0" ->
                Num(intOfText(IF dot = 0 THEN s ELSE SubSeq(s, 1, dot - 1))))

parseValue(str) ==
    With(trim(str), LAMBDA trimmed :
        IF IsNumberText(trimmed) THEN parseFloat(trimmed)
        ELSE IF \/ startsWith(trimmed, <<"\"">>) /\ endsWith(trimmed, <<"\"">>)
                \/ startsWith(trimmed, <<"'">>) /\ endsWith(trimmed, <<"'">>)
             THEN Str(SubSeq(trimmed, 2, Len(trimmed) - 1))
        ELSE IF trimmed = <<"t","r","u","e">> THEN Bool(TRUE)
        ELSE IF trimmed = <<"f","a","l","s","e">> THEN Bool(FALSE)
        ELSE IF trimmed = <<"n","u","l","l">> THEN Null
        ELSE Str(trimmed))

\* (for C3) every condition taken to hold
conditionHolds(condition, d) == TRUE

evaluateConditionInLoop(condition, d) ==
    With(thisMatches(condition, "path", 1), LAMBDA ms :
    With(Prop(d, <<"t","h","i","s">>), LAMBDA this :
    With(Splice(condition,
                [k \in 1..Len(ms) |->
                   [b |-> ms[k].b, e |-> ms[k].e,
                    r |-> With(getNestedValue(this, ms[k].g), LAMBDA value :
                            IF Truthy(this) /\ value.t \notin {"null", "undef"}
                            THEN (IF value.t = "str"
                                  THEN <<"\"">> \o value.v \o <<"\"">>
                                  ELSE JsString(value))
                            ELSE <<"n","u","l","l">>)]]), LAMBDA processedCondition :
    With(comparisonMatch(processedCondition), LAMBDA cm :
        IF cm.ok
        THEN Compare(cm.operator, parseValue(cm.left), parseValue(cm.right))
        ELSE Truthy(parseValue(processedCondition))))))

processConditionsInLoop(x, d) ==
    With(conditionMatches(x, 1), LAMBDA ms :
        Replaced(x, ms,
                 [k \in 1..Len(ms) |->
                    [s |-> IF evaluateConditionInLoop(ms[k].condition, d)
                           THEN ms[k].ifContent ELSE ms[k].elseContent,
                     h |-> 0]]))

-----------------------------------------------------------------------------
(* TemplateEngine.processLoops *)

loopStartMarker == <<"$","{","#","e","a","c","h"," ">>
loopEndMarker == <<"$","{","/","e","a","c","h","}">>

\* The search for the balanced closing tag: closeIndex (0 when the search
\* ends without one), from currentIndex at nesting depth depth
RECURSIVE findClose(_, _, _)
findClose(resultXml, currentIndex, depth) ==
    With(indexOf(resultXml, loopStartMarker, currentIndex), LAMBDA nextOpen :
    With(indexOf(resultXml, loopEndMarker, currentIndex), LAMBDA nextClose :
        IF currentIndex > Len(resultXml) \/ nextClose = 0 THEN 0
        ELSE IF nextOpen # 0 /\ nextOpen < nextClose
             THEN findClose(resultXml, nextOpen + 1, depth + 1)
        ELSE IF depth - 1 = 0 THEN nextClose
        ELSE findClose(resultXml, nextClose + 1, depth - 1)))

\* the content between the tags, less one line break at each end
trimContent(content) ==
    With(IF startsWith(content, <<"\n">>) THEN Tail(content)
         ELSE IF startsWith(content, <<"\r","\n">>) THEN From(content, 3)
         ELSE content, LAMBDA c1 :
        IF endsWith(c1, <<"\n">>) THEN SubSeq(c1, 1, Len(c1) - 1)
        ELSE IF endsWith(c1, <<"\r","\n">>) THEN SubSeq(c1, 1, Len(c1) - 2)
        ELSE c1)

\* const contextData = { ...data, this: item, parent: data.this, ... }
\* (for C8) the iterations counted from one
contextDataFromOne(d, arrayData, index) ==
    Rec(  (<<"t","h","i","s">> :> arrayData[index + 1])
       @@ (<<"p","a","r","e","n","t">> :> Prop(d, <<"t","h","i","s">>))
       @@ (<<"_","p","a","r","e","n","t","C","o","n","t","e","x","t">> :> d)
       @@ (<<"i","n","d","e","x">> :> Num(index + 1))
       @@ (<<"f","i","r","s","t">> :> Bool(index = 0))
       @@ (<<"l","a","s","t">> :> Bool(index = Len(arrayData) - 1))
       @@ (<<"c","o","u","n","t">> :> Num(Len(arrayData)))
       @@ d.v)

\* (for C9) what the enclosing context binds kept in the body
contextDataOuterKept(d, arrayData, index) ==
    Rec(  d.v
       @@ (<<"t","h","i","s">> :> arrayData[index + 1])
       @@ (<<"p","a","r","e","n","t">> :> Prop(d, <<"t","h","i","s">>))
       @@ (<<"_","p","a","r","e","n","t","C","o","n","t","e","x","t">> :> d)
       @@ (<<"i","n","d","e","x">> :> Num(index))
       @@ (<<"f","i","r","s","t">> :> Bool(index = 0))
       @@ (<<"l","a","s","t">> :> Bool(index = Len(arrayData) - 1))
       @@ (<<"c","o","u","n","t">> :> Num(Len(arrayData))))

\* (for C1) every iteration given the first element
contextDataOfFirst(d, arrayData, index) ==
    Rec(  (<<"t","h","i","s">> :> arrayData[1])
       @@ (<<"i","n","d","e","x">> :> Num(index))
       @@ (<<"f","i","r","s","t">> :> Bool(index = 0))
       @@ (<<"l","a","s","t">> :> Bool(index = Len(arrayData) - 1))
       @@ (<<"c","o","u","n","t">> :> Num(Len(arrayData)))
       @@ d.v)

contextData(d, arrayData, index) ==
    Rec((<<"t","h","i","s">> :> arrayData[index + 1])
        @@ (<<"p","a","r","e","n","t">> :> Prop(d, <<"t","h","i","s">>))
        @@ (<<"_","p","a","r","e","n","t","C","o","n","t","e","x","t">> :> d)
        @@ (<<"i","n","d","e","x">> :> Num(index))
        @@ (<<"f","i","r","s","t">> :> Bool(index = 0))
        @@ (<<"l","a","s","t">> :> Bool(index = Len(arrayData) - 1))
        @@ (<<"c","o","u","n","t">> :> Num(Len(arrayData)))
        @@ d.v)

\* the separator of arrayData.map(...).join('\n')
loopJoin == <<"\n">>

RECURSIVE processLoopsFrom(_, _, _), loopItem(_, _, _, _)

\* the callback of arrayData.map: the content for one item
loopItem(content, d, arrayData, index) ==
    With(contextData(d, arrayData, index), LAMBDA ctx :
    With(processLoopsFrom(content, 1, ctx), LAMBDA nested :
    With(processConditionsInLoop(nested.s, ctx), LAMBDA conds :
    With(processVariablesInLoop(conds.s, ctx), LAMBDA vs :
        [s |-> vs.s, h |-> nested.h + conds.h + vs.h]))))

\* the while (true) loop of processLoops, entered with startIndex
processLoopsFrom(resultXml, startIndex, d) ==
    With(indexOf(resultXml, loopStartMarker, startIndex), LAMBDA openIndex :
    IF openIndex = 0 THEN [s |-> resultXml, h |-> 0]
    ELSE
    With(indexOf(resultXml, <<"}">>, openIndex), LAMBDA openTagEndIndex :
    IF openTagEndIndex = 0 THEN [s |-> resultXml, h |-> 0]
    ELSE
    With(trim(SubSeq(resultXml, openIndex + Len(loopStartMarker),
                     openTagEndIndex - 1)), LAMBDA arrayPath :
    With(findClose(resultXml, openTagEndIndex + 1, 1), LAMBDA closeIndex :
    IF closeIndex = 0 THEN processLoopsFrom(resultXml, openTagEndIndex + 1, d)
    ELSE
    With(trimContent(SubSeq(resultXml, openTagEndIndex + 1, closeIndex - 1)),
         LAMBDA content :
    With(evaluate(arrayPath, d), LAMBDA arrayData :
    With(IF arrayData.v.t = "list"
         THEN [k \in 1..Len(arrayData.v.v) |->
                 loopItem(content, d, arrayData.v.v, k - 1)]
         ELSE <<>>, LAMBDA items :
    With(join([k \in 1..Len(items) |-> items[k].s], loopJoin), LAMBDA loopResult :
    With(SubSeq(resultXml, 1, openIndex - 1), LAMBDA beforeLoop :
    With(From(resultXml, closeIndex + Len(loopEndMarker)), LAMBDA afterLoop :
    With(processLoopsFrom(beforeLoop \o loopResult \o afterLoop,
                          Len(beforeLoop) + Len(loopResult) + 1, d), LAMBDA rest :
        [s |-> rest.s, h |-> arrayData.h + SumH(items) + rest.h])))))))))))

\* a pass that leaves the text as it is when the first loop it finds is
\* over something that is not a list
processLoopsOfListsOnly(x, d) ==
    With(indexOf(x, loopStartMarker, 1), LAMBDA openIndex :
    With(IF openIndex = 0 THEN 0 ELSE indexOf(x, <<"}">>, openIndex), LAMBDA openTagEndIndex :
        IF openTagEndIndex = 0
           \/ evaluate(trim(SubSeq(x, openIndex + Len(loopStartMarker),
                                   openTagEndIndex - 1)), d).v.t = "list"
        THEN processLoopsFrom(x, 1, d)
        ELSE [s |-> x, h |-> 0]))

processLoops(x, d) == processLoopsFrom(x, 1, d)

-----------------------------------------------------------------------------
(* The regular expressions of the XML passes.  A pattern is a sequence of *)
(* elements, matched with the backtracking of the host's engine:          *)
(*   L(text)      the text itself                                         *)
(*   G(class, m)  at least m characters of the class, as many as possible *)
(*   Lazy         [\s\S]*?  any characters, as few as possible            *)
(*   More(p)      (p)*      the pattern p, as many times as possible      *)

L(text) == [k |-> "lit", s |-> text, c |-> "", m |-> 0, p |-> <<>>]
G(class, min) == [k |-> "greedy", s |-> <<>>, c |-> class, m |-> min, p |-> <<>>]
Lazy == [k |-> "lazy", s |-> <<>>, c |-> "", m |-> 0, p |-> <<>>]
More(pat) == [k |-> "more", s |-> <<>>, c |-> "", m |-> 0, p |-> pat]

InClass(class, c) ==
    CASE class = "space" -> IsSpace(c)        \* \s
      [] class = "notGt" -> c # ">"           \* [^>]
      [] class = "notLt" -> c # "<"           \* [^<]
      [] class = "notQuote" -> c # "\""       \* [^"]
      [] class = "notBrace" -> c # "}"        \* [^}]

ClassRunEnd(s, i, class) ==
    With({j \in i..Len(s) : ~InClass(class, s[j])}, LAMBDA N :
        IF N = {} THEN Len(s) ELSE Min(N) - 1)

\* a match of pat can start at j only if this holds (a cheap first test)
CanStart(s, j, pat) ==
    IF Len(pat) = 0 THEN TRUE
    ELSE IF pat[1].k = "lit" THEN StartsAt(s, j, pat[1].s)
    ELSE IF pat[1].k = "greedy" /\ pat[1].m > 0
         THEN j <= Len(s) /\ InClass(pat[1].c, s[j])
    ELSE TRUE

NoMatch == [ok |-> FALSE, ends |-> <<>>]
Then(e, m) == IF m.ok THEN [ok |-> TRUE, ends |-> <<e>> \o m.ends] ELSE NoMatch

\* The match of pat at position i of s: [ok, ends], ends[n] the position
\* after the n-th element matched.  TryEach takes the positions C where a
\* repetition may end in the order the engine tries them.
RECURSIVE Match(_, _, _), TryEach(_, _, _, _)
TryEach(s, C, t, greedy) ==
    IF C = {} THEN NoMatch
    ELSE LET e == IF greedy THEN Max(C) ELSE Min(C)
             m == Match(s, e, t)
         IN  IF m.ok THEN Then(e, m) ELSE TryEach(s, C \ {e}, t, greedy)

Match(s, i, pat) ==
    IF Len(pat) = 0 THEN [ok |-> TRUE, ends |-> <<>>]
    ELSE LET h == pat[1]
             t == Tail(pat)
         IN  CASE h.k = "lit" ->
                    IF StartsAt(s, i, h.s) THEN Then(i + Len(h.s), Match(s, i + Len(h.s), t))
                    ELSE NoMatch
               [] h.k = "greedy" ->
                    TryEach(s, {e \in (i + h.m)..(ClassRunEnd(s, i, h.c) + 1) :
                                  CanStart(s, e, t)}, t, TRUE)
               [] h.k = "lazy" ->
                    TryEach(s, {e \in i..(Len(s) + 1) : CanStart(s, e, t)}, t, FALSE)
               [] h.k = "more" ->
                    LET again == IF CanStart(s, i, h.p) THEN Match(s, i, h.p \o <<h>> \o t)
                                 ELSE NoMatch
                    IN  IF again.ok THEN again ELSE Then(i, Match(s, i, t))

\* position after the match m, which started at i
MatchEnd(i, m) == IF m.ends = <<>> THEN i ELSE m.ends[Len(m.ends)]

\* the matches of /pat/g from position from on: [b, e, ends]
RECURSIVE Matches(_, _, _)
Matches(s, pat, from) ==
    LET C == {i \in from..Len(s) : CanStart(s, i, pat)}
        i == Min(C)
        m == Match(s, i, pat)
    IN  IF C = {} THEN <<>>
        ELSE IF m.ok
             THEN <<[b |-> i, e |-> MatchEnd(i, m) - 1, ends |-> m.ends]>>
                    \o Matches(s, pat, MatchEnd(i, m))
        ELSE Matches(s, pat, i + 1)

\* s.replace(/pat/g, '')
removeAll(s, pat) ==
    With(Matches(s, pat, 1), LAMBDA ms :
        Splice(s, [k \in 1..Len(ms) |-> [b |-> ms[k].b, e |-> ms[k].e, r |-> <<>>]]))

-----------------------------------------------------------------------------
(* TemplateEngine.cleanWordXmlLikeLibreOffice *)

\* /\s+name="[^"]*"/g
attributePattern(name) ==
    <<G("space", 1), L(name \o <<"=","\"">>), G("notQuote", 0), L(<<"\"">>)>>

\* 1. the revision tracking attributes, in the order of the source
removeRevisionAttributes(x) ==
    removeAll(removeAll(removeAll(removeAll(removeAll(removeAll(removeAll(removeAll(x,
        attributePattern(<<"w",":","r","s","i","d","R">>)),
        attributePattern(<<"w",":","r","s","i","d","R","D","e","f","a","u","l","t">>)),
        attributePattern(<<"w",":","r","s","i","d","P">>)),
        attributePattern(<<"w",":","r","s","i","d","R","P","r">>)),
        attributePattern(<<"w",":","r","s","i","d","D","e","l">>)),
        attributePattern(<<"w",":","r","s","i","d","T","r">>)),
        attributePattern(<<"w","1","4",":","p","a","r","a","I","d">>)),
        attributePattern(<<"w","1","4",":","t","e","x","t","I","d">>))

\* 2. /<w:proofErr[^>]*\/>/g
removeProofErr(x) == removeAll(x, <<L(<<"<","w",":","p","r","o","o","f","E","r","r">>), G("notGt", 0), L(<<"/",">">>)>>)

\* /<\/w:t><\/w:r><w:r\s+[^>]*><w:t>/g
mergeWithAttributes ==
    <<L(<<"<","/","w",":","t",">","<","/","w",":","r",">","<","w",":","r">>), G("space", 1), G("notGt", 0), L(<<">","<","w",":","t",">">>)>>
\* /<\/w:t><\/w:r><w:r><w:t>/g
mergePlain == <<L(<<"<","/","w",":","t",">","<","/","w",":","r",">","<","w",":","r",">","<","w",":","t",">">>)>>
\* /<\/w:t><\/w:r><w:r[^>]*><w:t\s+xml:space="preserve">/g
mergePreserve ==
    <<L(<<"<","/","w",":","t",">","<","/","w",":","r",">","<","w",":","r">>), G("notGt", 0), L(<<">","<","w",":","t">>), G("space", 1),
      L(<<"x","m","l",":","s","p","a","c","e","=","\"","p","r","e","s","e","r","v","e","\"",">">>)>>

\* one pass of the do ... while body
mergePass(x) == removeAll(removeAll(removeAll(x, mergeWithAttributes), mergePlain),
                          mergePreserve)

\* the ceiling of the merge loop
MaxMergeIterations == 20

\* 3. the do ... while loop, entered with the passes done so far:
\* [x, iterations] when it ends
RECURSIVE mergeLoop(_, _)
mergeLoop(x, iterations) ==
    With(mergePass(x), LAMBDA y :
        IF iterations + 1 > MaxMergeIterations THEN [x |-> y, iterations |-> iterations + 1]
        ELSE IF Len(y) < Len(x) THEN mergeLoop(y, iterations + 1)
        ELSE [x |-> y, iterations |-> iterations + 1])

\* 4. the empty runs
removeEmptyRuns(x) ==
    removeAll(
      removeAll(
        removeAll(x, <<L(<<"<","w",":","r",">","<","/","w",":","r",">">>)>>),
        <<L(<<"<","w",":","r">>), G("space", 1), G("notGt", 0), L(<<">","<","/","w",":","r",">">>)>>),
      <<L(<<"<","w",":","r",">","<","w",":","r","P","r","/",">","<","/","w",":","r",">">>)>>)

cleanWordXmlLikeLibreOffice(x) ==
    removeEmptyRuns(mergeLoop(removeProofErr(removeRevisionAttributes(x)), 0).x)

-----------------------------------------------------------------------------
(* TemplateEngine: tables *)

\* /<w:tr[^>]*>([\s\S]*?)<\/w:tr>/g
tableRowRegex == <<L(<<"<","w",":","t","r">>), G("notGt", 0), L(<<">">>), Lazy, L(<<"<","/","w",":","t","r",">">>)>>
\* the group of a match of tableRowRegex
rowContentOf(x, m) == SubSeq(x, m.ends[3], m.ends[4] - 1)

\* /\$\{#each\s+([^}]+)\}/
eachOpenRegex == <<L(<<"$","{","#","e","a","c","h">>), G("space", 1), G("notBrace", 1), L(<<"}">>)>>

\* the callback of processTableLoops, on a row and its content
tableLoopRow(match, rowContent, d) ==
    With(Matches(rowContent, eachOpenRegex, 1), LAMBDA ms :
        IF ms # <<>>
        THEN With(SubSeq(rowContent, ms[1].ends[2], ms[1].ends[3] - 1), LAMBDA arrayPath :
             With(evaluate(arrayPath, d), LAMBDA arrayData :
                [s |-> IF arrayData.v.t = "list" THEN match ELSE <<>>,
                 h |-> arrayData.h]))
        ELSE [s |-> match, h |-> 0])

processTableLoops(x, d) ==
    With(Matches(x, tableRowRegex, 1), LAMBDA ms :
        Replaced(x, ms,
                 [k \in 1..Len(ms) |->
                    tableLoopRow(SubSeq(x, ms[k].b, ms[k].e), rowContentOf(x, ms[k]), d)]))

\* \s*<w:tc[^>]*>\s*<w:p[^>]*>\s*<w:t[^>]*>\s*<\/w:t>\s*<\/w:p>\s*<\/w:tc>\s*
emptyCell ==
    <<G("space", 0), L(<<"<","w",":","t","c">>), G("notGt", 0), L(<<">">>),
      G("space", 0), L(<<"<","w",":","p">>), G("notGt", 0), L(<<">">>),
      G("space", 0), L(<<"<","w",":","t">>), G("notGt", 0), L(<<">">>),
      G("space", 0), L(<<"<","/","w",":","t",">">>),
      G("space", 0), L(<<"<","/","w",":","p",">">>),
      G("space", 0), L(<<"<","/","w",":","t","c",">">>),
      G("space", 0)>>

emptyControlRowPattern ==
    <<L(<<"<","w",":","t","r">>), G("notGt", 0), L(<<">">>)>> \o emptyCell \o <<L(<<"<","/","w",":","t","r",">">>)>>

emptyMultiCellRowPattern ==
    <<L(<<"<","w",":","t","r">>), G("notGt", 0), L(<<">">>)>> \o emptyCell \o <<More(emptyCell)>>
        \o <<L(<<"<","/","w",":","t","r",">">>)>>

\* /<w:t[^>]*>([^<]*)<\/w:t>/g
cellTextRegex ==
    <<L(<<"<","w",":","t">>), G("notGt", 0), L(<<">">>), G("notLt", 0), L(<<"<","/","w",":","t",">">>)>>
\* /<[^>]*>/g
tagRegex == <<L(<<"<">>), G("notGt", 0), L(<<">">>)>>

\* (for C5) every row kept
keepRow(match, content) == match

\* the callback of the whitespaceOnlyRowPattern replacement
whitespaceOnlyRow(match, content) ==
    With(Matches(content, cellTextRegex, 1), LAMBDA actualText :
    With(\E k \in 1..Len(actualText) :
            Len(trim(removeAll(SubSeq(content, actualText[k].b, actualText[k].e),
                               tagRegex))) > 0, LAMBDA hasNonEmptyText :
        IF actualText # <<>> /\ ~hasNonEmptyText THEN <<>> ELSE match))

removeEmptyControlRows(x) ==
    With(removeAll(removeAll(x, emptyControlRowPattern),
                   emptyMultiCellRowPattern), LAMBDA cleaned :
    With(Matches(cleaned, tableRowRegex, 1), LAMBDA ms :
        Splice(cleaned,
               [k \in 1..Len(ms) |->
                  [b |-> ms[k].b, e |-> ms[k].e,
                   r |-> whitespaceOnlyRow(SubSeq(cleaned, ms[k].b, ms[k].e),
                                           rowContentOf(cleaned, ms[k]))]])))

processTables(x, d) ==
    With(processTableLoops(x, d), LAMBDA processedXml :
        [s |-> removeEmptyControlRows(processedXml.s), h |-> processedXml.h])

\* /<w:tr[^>]*>[\s\S]*?\$\{#each\s+([^}]+)\}[\s\S]*?<\/w:tr>([\s\S]*?)
\*  <w:tr[^>]*>[\s\S]*?\$\{\/each\}[\s\S]*?<\/w:tr>/g
tableLoopPattern ==
    <<L(<<"<","w",":","t","r">>), G("notGt", 0), L(<<">">>), Lazy>> \o eachOpenRegex
        \o <<Lazy, L(<<"<","/","w",":","t","r",">">>), Lazy,
             L(<<"<","w",":","t","r">>), G("notGt", 0), L(<<">">>), Lazy, L(<<"$","{","/","e","a","c","h","}">>),
             Lazy, L(<<"<","/","w",":","t","r",">">>)>>

\* the context of one generated row
rowContext(d, arrayData, index) ==
    Rec(  (<<"t","h","i","s">> :> arrayData[index + 1])
       @@ (<<"i","n","d","e","x">> :> Num(index))
       @@ (<<"f","i","r","s","t">> :> Bool(index = 0))
       @@ (<<"l","a","s","t">> :> Bool(index = Len(arrayData) - 1))
       @@ d.v)

\* the callback of processAdvancedTable
advancedTableLoop(arrayPath, contentBetween, d) ==
    With(evaluate(arrayPath, d), LAMBDA arrayData :
        IF arrayData.v.t # "list" THEN [s |-> <<>>, h |-> arrayData.h]
        ELSE With([k \in 1..Len(arrayData.v.v) |->
                    With(rowContext(d, arrayData.v.v, k - 1), LAMBDA ctx :
                    With(processVariablesInLoop(contentBetween, ctx), LAMBDA vs :
                    With(processConditionsInLoop(vs.s, ctx), LAMBDA cs :
                        [s |-> cs.s, h |-> vs.h + cs.h])))], LAMBDA rows :
                [s |-> Concat([k \in 1..Len(rows) |-> rows[k].s]),
                 h |-> arrayData.h + SumH(rows)]))

processAdvancedTable(x, d) ==
    With(Matches(x, tableLoopPattern, 1), LAMBDA ms :
        Replaced(x, ms,
                 [k \in 1..Len(ms) |->
                    advancedTableLoop(SubSeq(x, ms[k].ends[6], ms[k].ends[7] - 1),
                                      SubSeq(x, ms[k].ends[10], ms[k].ends[11] - 1), d)]))

-----------------------------------------------------------------------------
(* The templates and the data the pipeline is run on *)

\* the longest list in the data
MaxLen == 3

\* the sequences over S of length at most n
Lists(S, n) == UNION {[1..k -> S] : k \in 0..n}

\* the root object with the one member key
Root(key, value) == Rec(key :> value)

\* --- a loop over scalars, and the loop of test-loops.js over users
eachThisTemplate == <<"A","$","{","#","e","a","c","h"," ","i","t","e","m","s","}","-","$","{","t","h","i","s","}","$","{","/","e","a","c","h","}","Z">>
ScalarItems == {Str(<<"a">>), Str(<<"b","&","c">>), Num(0)}
eachUsersTemplate == <<"$","{","#","e","a","c","h"," ","u","s","e","r","s","}","\n","-"," ","$","{","t","h","i","s",".","n","a","m","e","}"," ","(","$","{","t","h","i","s",".","a","g","e","}",")","\n","$","{","/","e","a","c","h","}">>
User(name, age) == Rec((<<"n","a","m","e">> :> Str(name)) @@ (<<"a","g","e">> :> Num(age)))
Users == {User(<<"J","o","h","n">>, 30), User(<<"J","a","n","e">>, 25)}

EachCases ==
    {[tmpl |-> eachThisTemplate, data |-> Root(<<"i","t","e","m","s">>, List(l))] :
        l \in Lists(ScalarItems, MaxLen)}
    \cup {[tmpl |-> eachUsersTemplate, data |-> Root(<<"u","s","e","r","s">>, List(l))] :
            l \in Lists(Users, MaxLen)}

\* --- one interpolation, at the top level and in a loop
variableTemplate == <<"[","$","{","v","}","]">>
variableInLoopTemplate == <<"$","{","#","e","a","c","h"," ","i","t","e","m","s","}","[","$","{","t","h","i","s",".","v","}","]","$","{","/","e","a","c","h","}">>
Scalars == {Str(<<"a">>), Str(<<"a","<","b","&","\"","c","\"",">","'","d","'">>), Str(<<>>), Num(0), Num(5),
            Bool(TRUE), Bool(FALSE)}

VariableCases ==
    {[tmpl |-> variableTemplate, data |-> Root(<<"v">>, x)] : x \in Scalars}
    \cup {[tmpl |-> variableInLoopTemplate,
           data |-> Root(<<"i","t","e","m","s">>, List(<<Root(<<"v">>, x)>>))] : x \in Scalars}

\* --- a condition in a loop, as in test-loops.js
ifNumberTemplate ==
    <<"$","{","#","e","a","c","h"," ","i","t","e","m","s","}","$","{","#","i","f"," ","t","h","i","s",".","n"," ",">","="," ","2","}","H","$","{","t","h","i","s",".","n","}","$","{","#","e","l","s","e","}","L","$","{","t","h","i","s",".","n","}","$","{","/","i","f","}",";","$","{","/","e","a","c","h","}">>
ifBooleanTemplate ==
    <<"$","{","#","e","a","c","h"," ","i","t","e","m","s","}","$","{","#","i","f"," ","t","h","i","s",".","o","k","}","Y","$","{","t","h","i","s",".","s","}","$","{","#","e","l","s","e","}","N","$","{","t","h","i","s",".","s","}","$","{","/","i","f","}",";","$","{","/","e","a","c","h","}">>
ifStringTemplate ==
    <<"$","{","#","e","a","c","h"," ","i","t","e","m","s","}","$","{","#","i","f"," ","t","h","i","s",".","s"," ","=","="," ","\"","x","\"","}","X","$","{","t","h","i","s",".","n","}","$","{","/","i","f","}",";","$","{","/","e","a","c","h","}">>
ifTemplates == {ifNumberTemplate, ifBooleanTemplate, ifStringTemplate}
Item(n, ok, str) ==
    Rec((<<"n">> :> Num(n)) @@ (<<"o","k">> :> Bool(ok)) @@ (<<"s">> :> Str(str)))
Items == {Item(1, TRUE, <<"x">>), Item(2, FALSE, <<"y">>), Item(3, FALSE, <<"x">>)}

IfCases ==
    {[tmpl |-> t, data |-> Root(<<"i","t","e","m","s">>, List(l))] :
        t \in ifTemplates, l \in Lists(Items, MaxLen)}

\* --- one condition on one value, at the top level and in a loop
conditionTemplate == <<"[","$","{","#","i","f"," ","v","}","T","$","{","#","e","l","s","e","}","E","$","{","/","i","f","}","]">>
conditionInLoopTemplate == <<"$","{","#","e","a","c","h"," ","i","t","e","m","s","}","[","$","{","#","i","f"," ","t","h","i","s",".","v","}","T","$","{","#","e","l","s","e","}","E","$","{","/","i","f","}","]","$","{","/","e","a","c","h","}">>
ConditionValues == {Null, Bool(FALSE), Bool(TRUE), Num(0), Num(1), Str(<<>>),
                    Str(<<"a">>), List(<<>>), List(<<Num(1)>>)}

ConditionCases ==
    {[tmpl |-> conditionTemplate, data |-> Root(<<"v">>, x)] : x \in ConditionValues}
    \cup {[tmpl |-> conditionInLoopTemplate,
           data |-> Root(<<"i","t","e","m","s">>, List(<<Root(<<"v">>, x)>>))] :
            x \in ConditionValues}

\* --- a one-column table whose rows hold the loop markers
\* a row of one cell, its text in a run or directly in the paragraph
Row(inRun, text) ==
    IF inRun
    THEN <<"<","w",":","t","r",">","<","w",":","t","c",">","<","w",":","p",">","<","w",":","r",">","<","w",":","t",">">> \o text \o <<"<","/","w",":","t",">","<","/","w",":","r",">","<","/","w",":","p",">","<","/","w",":","t","c",">","<","/","w",":","t","r",">">>
    ELSE <<"<","w",":","t","r",">","<","w",":","t","c",">","<","w",":","p",">","<","w",":","t",">">> \o text \o <<"<","/","w",":","t",">","<","/","w",":","p",">","<","/","w",":","t","c",">","<","/","w",":","t","r",">">>
Table(rows) == <<"<","w",":","t","b","l",">">> \o Concat(rows) \o <<"<","/","w",":","t","b","l",">">>
tableTemplate(inRun) ==
    Table(<<Row(inRun, <<"N","a","m","e">>), Row(inRun, <<"$","{","#","e","a","c","h"," ","i","t","e","m","s","}">>),
            Row(inRun, <<"$","{","t","h","i","s","}">>), Row(inRun, <<"$","{","/","e","a","c","h","}">>)>>)
Names == {Str(<<"A","n","n">>), Str(<<"B","o">>)}

TableCases ==
    {[tmpl |-> tableTemplate(r), data |-> Root(<<"i","t","e","m","s">>, List(l))] :
        r \in BOOLEAN, l \in Lists(Names, MaxLen)}

\* --- one interpolation split over two runs by the editor
splitDirective == <<"$","{","u","s","e","r",".","n","a","m","e","}">>
plainSeam == <<"<","/","w",":","t",">","<","/","w",":","r",">","<","w",":","r",">","<","w",":","t",">">>
revisionSeam == <<"<","/","w",":","t",">","<","/","w",":","r",">","<","w",":","r"," ","w",":","r","s","i","d","R","=","\"","0","0","A","1","\"",">","<","w",":","t",">">>
attributeSeam == <<"<","/","w",":","t",">","<","/","w",":","r",">","<","w",":","r"," ","w",":","x","=","\"","1","\"",">","<","w",":","t",">">>
preserveSeam == <<"<","/","w",":","t",">","<","/","w",":","r",">","<","w",":","r",">","<","w",":","t"," ","x","m","l",":","s","p","a","c","e","=","\"","p","r","e","s","e","r","v","e","\"",">">>
proofSeam == <<"<","/","w",":","t",">","<","/","w",":","r",">","<","w",":","p","r","o","o","f","E","r","r"," ","w",":","t","y","p","e","=","\"","s","p","e","l","l","S","t","a","r","t","\"","/",">","<","w",":","r",">","<","w",":","t",">">>
propertiesSeam == <<"<","/","w",":","t",">","<","/","w",":","r",">","<","w",":","r",">","<","w",":","r","P","r",">","<","w",":","b","/",">","<","/","w",":","r","P","r",">","<","w",":","t",">">>
Seams == {plainSeam, revisionSeam, attributeSeam, preserveSeam, proofSeam,
          propertiesSeam}
Paragraph(text) == <<"<","w",":","p",">","<","w",":","r",">","<","w",":","t",">">> \o text \o <<"<","/","w",":","t",">","<","/","w",":","r",">","<","/","w",":","p",">">>
\* the paragraph with the directive cut after its k-th character
splitTemplate(k, seam) ==
    Paragraph(SubSeq(splitDirective, 1, k) \o seam \o From(splitDirective, k + 1))
SplitAt == 1..(Len(splitDirective) - 1)

\* the directive in one run, and cut at each place by each seam
SplitTemplates ==
    {Paragraph(splitDirective)} \cup {splitTemplate(k, seam) : k \in SplitAt, seam \in Seams}

SplitCases ==
    {[tmpl |-> t, data |-> Root(<<"u","s","e","r">>, Root(<<"n","a","m","e">>, n))] : t \in SplitTemplates, n \in Names}

\* --- the loop metadata, in a loop and in a loop inside it
metaTemplate == <<"$","{","#","e","a","c","h"," ","i","t","e","m","s","}","<","$","{","i","n","d","e","x","}","/","$","{","c","o","u","n","t","}",":","$","{","f","i","r","s","t","}",",","$","{","l","a","s","t","}",",","$","{","p","a","r","e","n","t","}",">","$","{","/","e","a","c","h","}">>
nestedTemplate ==
    <<"$","{","#","e","a","c","h"," ","g","r","o","u","p","s","}","$","{","#","e","a","c","h"," ","t","h","i","s",".","m","e","m","b","e","r","s","}","(","$","{","p","a","r","e","n","t",".","n","a","m","e","}",".","$","{","t","h","i","s","}",":","$","{","i","n","d","e","x","}","/","$","{","c","o","u","n","t","}",",","$","{","f","i","r","s","t","}",",","$","{","l","a","s","t","}",")","$","{","/","e","a","c","h","}","<","$","{","t","h","i","s",".","n","a","m","e","}",":","$","{","i","n","d","e","x","}","/","$","{","c","o","u","n","t","}",">","$","{","/","e","a","c","h","}","|","$","{","i","n","d","e","x","}","|","$","{","c","o","u","n","t","}","|","$","{","t","h","i","s",".","n","a","m","e","}","|","$","{","n","a","m","e","}">>
Group(name, members) ==
    Rec((<<"n","a","m","e">> :> Str(name)) @@ (<<"m","e","m","b","e","r","s">> :> List(members)))
Groups == {Group(<<"g">>, <<>>), Group(<<"h">>, <<Str(<<"a">>)>>),
           Group(<<"k">>, <<Str(<<"a">>), Str(<<"b">>)>>)}
NestedRoot(l) ==
    Rec((<<"g","r","o","u","p","s">> :> List(l)) @@ (<<"c","o","u","n","t">> :> Str(<<"c">>))
        @@ (<<"n","a","m","e">> :> Str(<<"r","o","o","t">>)))

MetaCases ==
    {[tmpl |-> metaTemplate, data |-> Root(<<"i","t","e","m","s">>, List(l))] :
        l \in Lists(Names, MaxLen)}
    \cup {[tmpl |-> nestedTemplate, data |-> NestedRoot(l)] :
            l \in Lists(Groups, MaxLen)}

\* --- an expression the host rejects, between two parts that evaluate
failingTemplate == <<"a","$","{","v"," ","+","}","b","$","{","w","}","c">>
failingConditionTemplate == <<"a","$","{","#","i","f"," ","v"," ","+","}","T","$","{","/","i","f","}","b","$","{","w","}","c">>
FailingTemplates == {failingTemplate, failingConditionTemplate}
Texts == {Str(<<"x">>), Str(<<"<","y",">">>)}
TwoMembers(x, y) == Rec((<<"v">> :> x) @@ (<<"w">> :> y))

FailingCases ==
    {[tmpl |-> t, data |-> TwoMembers(x, y)] :
        t \in FailingTemplates, x \in {Str(<<"a">>), Num(1)}, y \in Texts}

\* --- an opener without its closer
unclosedEachTemplate == <<"A","$","{","#","e","a","c","h"," ","i","t","e","m","s","}","-","$","{","t","h","i","s","}","Z">>
unclosedOuterTemplate == <<"A","$","{","#","e","a","c","h"," ","i","t","e","m","s","}","-","$","{","#","e","a","c","h"," ","t","h","i","s",".","m","}","x","$","{","/","e","a","c","h","}","Z">>
unclosedIfTemplate == <<"[","$","{","#","i","f"," ","v","}","T","]">>
UnclosedTemplates == {unclosedEachTemplate, unclosedOuterTemplate, unclosedIfTemplate}

UnclosedCases ==
    {[tmpl |-> t, data |-> Rec((<<"i","t","e","m","s">> :> List(l)) @@ (<<"v">> :> Bool(b)))] :
        t \in UnclosedTemplates, l \in Lists({Str(<<"a">>)}, MaxLen), b \in BOOLEAN}

\* --- a pipeline of two formatters, one of them possibly unknown or styling
noSuchFormatter == <<"n","o","s","u","c","h">>
PipelineNames == {<<"u","p","p","e","r">>, <<"l","o","w","e","r">>, <<"t","r","i","m">>, <<"l","e","n","g","t","h">>, <<"b","o","l","d">>, noSuchFormatter}
PipelineTemplate(f1, f2) == <<"[","$","{","v","|">> \o f1 \o <<"|">> \o f2 \o <<"}","]">>
PipelineValues == {Str(<<" ","a","B"," ">>), Str(<<"<","c">>), Num(10)}
PipelineCases ==
    {[tmpl |-> PipelineTemplate(f1, f2), data |-> Root(<<"v">>, x)] :
        f1 \in PipelineNames, f2 \in PipelineNames, x \in PipelineValues}

\* --- currency and number, with and without an argument
currencyTemplate(code) == <<"[","$","{","v","|","c","u","r","r","e","n","c","y",":">> \o code \o <<"}","]">>
numberTemplate(N) == <<"[","$","{","v","|","n","u","m","b","e","r",":">> \o natToString(N) \o <<"}","]">>
currencyDefaultTemplate == <<"[","$","{","v","|","c","u","r","r","e","n","c","y","}","]">>
numberDefaultTemplate == <<"[","$","{","v","|","n","u","m","b","e","r","}","]">>
CurrencyCodes == {<<"U","S","D">>, <<"C","A","D">>, <<"A","U","D">>}
Decimals == {0, 2, 3}
Amounts == {Num(5), Num(1234), Str(<<"1","2">>)}
ArgumentCases ==
    {[tmpl |-> t, data |-> Root(<<"v">>, x)] :
        t \in {currencyTemplate(c) : c \in CurrencyCodes}
                \cup {numberTemplate(N) : N \in Decimals}
                \cup {currencyDefaultTemplate, numberDefaultTemplate},
        x \in Amounts}

\* --- documents without a directive
PlainTemplates ==
    {<<"a","b","c">>, Paragraph(<<"a","b">>)}
        \cup {Paragraph(<<"a","b">> \o seam \o <<"c","d">>) : seam \in Seams}
        \cup {Table(<<Row(r, <<"N","a","m","e">>), Row(r, <<>>)>>) : r \in BOOLEAN}
PlainData == {Rec(<<>>), Root(<<"v">>, Str(<<"a">>)), Root(<<"i","t","e","m","s">>, List(<<>>))}
PlainCases == {[tmpl |-> t, data |-> d] : t \in PlainTemplates, d \in PlainData}

\* --- a loop over something that is not a list
notIterableTemplate == <<"A","$","{","v","}","[","$","{","#","e","a","c","h"," ","i","t","e","m","s","}","-","$","{","t","h","i","s","}","$","{","/","e","a","c","h","}","]","$","{","v","}","Z">>
notIterableInLoopTemplate == <<"$","{","#","e","a","c","h"," ","r","o","w","s","}","<","$","{","#","e","a","c","h"," ","t","h","i","s",".","m","}","-","$","{","t","h","i","s","}","$","{","/","e","a","c","h","}",">","$","{","/","e","a","c","h","}">>
NotLists == {Undef, Null, Num(5), Str(<<"a","b">>), Root(<<"l","e","n","g","t","h">>, Num(1))}
\* the object with the member key, or without it when the value is undefined
RootOrNone(key, value) == IF value = Undef THEN Rec(<<>>) ELSE Root(key, value)
NotIterableCases ==
    {[tmpl |-> notIterableTemplate,
      data |-> Rec(RootOrNone(<<"i","t","e","m","s">>, x).v @@ (<<"v">> :> Str(<<"<","x",">">>)))] :
        x \in NotLists}
    \cup {[tmpl |-> notIterableInLoopTemplate,
           data |-> Root(<<"r","o","w","s">>, List([k \in 1..Len(l) |-> RootOrNone(<<"m">>, l[k])]))] :
            l \in Lists(NotLists \cup {List(<<Str(<<"a">>)>>)}, MaxLen - 1)}

\* --- a condition inside a condition
nestedIfTemplate == <<"[","$","{","#","i","f"," ","a","}","X","$","{","#","i","f"," ","b","}","Y","$","{","/","i","f","}","Z","$","{","/","i","f","}","]">>
nestedIfInLoopTemplate ==
    <<"$","{","#","e","a","c","h"," ","i","t","e","m","s","}","[","$","{","#","i","f"," ","t","h","i","s",".","a","}","X","$","{","#","i","f"," ","t","h","i","s",".","b","}","Y","$","{","/","i","f","}","Z","$","{","/","i","f","}","]","$","{","/","e","a","c","h","}">>
TwoFlags(a, b) == Rec((<<"a">> :> Bool(a)) @@ (<<"b">> :> Bool(b)))
NestedIfCases ==
    {[tmpl |-> nestedIfTemplate, data |-> TwoFlags(a, b)] : a \in BOOLEAN, b \in BOOLEAN}
    \cup {[tmpl |-> nestedIfInLoopTemplate,
           data |-> Root(<<"i","t","e","m","s">>, List(<<TwoFlags(a, b)>>))] :
            a \in BOOLEAN, b \in BOOLEAN}

\* --- a member of the root data, used at the top level and in a loop body
rootVariableTemplate == <<"[","$","{","t","i","t","l","e","}","]">>
rootVariableInLoopTemplate == <<"$","{","#","e","a","c","h"," ","i","t","e","m","s","}","[","$","{","t","i","t","l","e","}","]","$","{","/","e","a","c","h","}">>
rootConditionTemplate == <<"[","$","{","#","i","f"," ","f","l","a","g","}","T","$","{","#","e","l","s","e","}","E","$","{","/","i","f","}","]">>
rootConditionInLoopTemplate == <<"$","{","#","e","a","c","h"," ","i","t","e","m","s","}","[","$","{","#","i","f"," ","f","l","a","g","}","T","$","{","#","e","l","s","e","}","E","$","{","/","i","f","}","]","$","{","/","e","a","c","h","}">>
RootValues == {Str(<<"a","<">>), Str(<<>>), Num(0), Num(5), Bool(TRUE), Bool(FALSE)}
RootData(x) ==
    Rec((<<"i","t","e","m","s">> :> List(<<Num(1)>>)) @@ (<<"t","i","t","l","e">> :> x) @@ (<<"f","l","a","g">> :> x))
RootCases ==
    {[tmpl |-> t, data |-> RootData(x)] :
        t \in {rootVariableInLoopTemplate, rootConditionInLoopTemplate}, x \in RootValues}

\* --- a table row whose only text is a directive that may leave nothing
lateRowTemplates(inRun) ==
    {Table(<<Row(inRun, <<"N","a","m","e">>), Row(inRun, <<"$","{","v","}">>)>>),
     Table(<<Row(inRun, <<"N","a","m","e">>), Row(inRun, <<"$","{","#","i","f"," ","v","}","T","$","{","/","i","f","}">>)>>)}
LateRowTemplates == lateRowTemplates(TRUE) \cup lateRowTemplates(FALSE)
LateRowCases ==
    {[tmpl |-> t, data |-> Root(<<"v">>, x)] :
        t \in LateRowTemplates, x \in {Str(<<>>), Str(<<"x">>)}}

\* --- data whose text reads like a directive, interpolated at the top
\* level and in a loop
injectedTemplate == <<"[","$","{","v","}","]">>
injectedInLoopTemplate == <<"[","$","{","#","e","a","c","h"," ","i","t","e","m","s","}","$","{","t","h","i","s","}","$","{","/","e","a","c","h","}","]">>
Payloads == {<<"p">>, <<"$","{","w","}">>, <<"$","{","#","i","f"," ","a","}","T","$","{","/","i","f","}">>, <<"$","{","#","e","a","c","h"," ","i","t","e","m","s","}","q","$","{","/","e","a","c","h","}">>}
Injected(payload) ==
    Rec((<<"i","t","e","m","s">> :> List(<<Str(payload)>>)) @@ (<<"v">> :> Str(payload))
        @@ (<<"w">> :> Str(<<"X">>)) @@ (<<"a">> :> Bool(TRUE)))
InjectedCases ==
    {[tmpl |-> t, data |-> Injected(payload)] :
        t \in {injectedTemplate, injectedInLoopTemplate}, payload \in Payloads}

Cases == EachCases \cup VariableCases \cup IfCases \cup ConditionCases
            \cup TableCases \cup SplitCases \cup MetaCases
            \cup FailingCases \cup UnclosedCases \cup PipelineCases
            \cup ArgumentCases \cup PlainCases \cup NotIterableCases
            \cup NestedIfCases \cup RootCases \cup LateRowCases
            \cup InjectedCases

-----------------------------------------------------------------------------
(* DocumentGenerator: the archive, its validation, the data it hands on *)

MinSize == 1000
MaxSize == 100 * 1024 * 1024
MinDocumentXml == 100
DefaultBatchSize == 10

documentPath == "word/document.xml"
requiredFiles == {documentPath, "[Content_Types].xml", "_rels/.rels"}

validSignatures == {<<80, 75, 3, 4>>, <<80, 75, 5, 6>>, <<80, 75, 7, 8>>}

\* validSignatures.some(sig => sig.every((byte, i) => buffer[i] === byte))
hasValidSignature(buffer) == buffer.signature \in validSignatures

\* requiredFiles.filter(file => !zip.files[file])
missingFiles(buffer) == requiredFiles \ DOMAIN buffer.files

NoError == "none"

\* a validation that looks at the size and at the parts only
validateDocxBufferUnsigned(buffer) ==
    IF buffer.length < MinSize THEN "DOCX file too small"
    ELSE IF buffer.length > MaxSize THEN "DOCX file too large"
    ELSE IF ~buffer.readable THEN "Corrupted DOCX file"
    ELSE IF missingFiles(buffer) # {}
         THEN "Invalid DOCX structure. Missing required files"
    ELSE IF Len(buffer.files[documentPath]) < MinDocumentXml
         THEN "Invalid or empty document.xml in DOCX file"
    ELSE NoError

\* what validateDocxBuffer throws for the buffer, NoError when it returns.
\* The buffer is its length, its first four bytes, whether PizZip can read
\* it, and the parts PizZip finds in it.
validateDocxBuffer(buffer) ==
    IF buffer.length < MinSize THEN "DOCX file too small"
    ELSE IF buffer.length > MaxSize THEN "DOCX file too large"
    ELSE IF ~hasValidSignature(buffer)
         THEN "Invalid DOCX file: Not a valid ZIP archive"
    ELSE IF ~buffer.readable THEN "Corrupted DOCX file"
    ELSE IF missingFiles(buffer) # {}
         THEN "Invalid DOCX structure. Missing required files"
    ELSE IF Len(buffer.files[documentPath]) < MinDocumentXml
         THEN "Invalid or empty document.xml in DOCX file"
    ELSE NoError

\* what validateGenerationData throws for the data.  The values of the
\* model are trees of a few members: none is circular or exceeds 10MB.
validateGenerationData(d) ==
    IF ~Truthy(d) \/ ~IsObject(d) THEN "Data must be a valid object"
    ELSE NoError

\* a function member of an object
Fn(name) == [t |-> "fn", v |-> name]

\* JSON.parse(JSON.stringify(x)): the members that are undefined or
\* functions are left out, in a list they become null, as NaN does
RECURSIVE jsonClone(_)
jsonClone(x) ==
    CASE x.t = "rec" ->
            Rec([k \in {m \in DOMAIN x.v : x.v[m].t \notin {"undef", "fn"}} |->
                    jsonClone(x.v[k])])
      [] x.t = "list" ->
            List([k \in 1..Len(x.v) |->
                    IF x.v[k].t \in {"undef", "fn"} THEN Null ELSE jsonClone(x.v[k])])
      [] x.t = "nan" -> Null
      [] OTHER -> x

\* normalizeTextFields: every text trimmed.  The quotes, dashes and
\* spaces it replaces are not among the characters of the model.
RECURSIVE normalizeTextFields(_)
normalizeTextFields(obj) ==
    CASE obj.t = "str" -> Str(trim(obj.v))
      [] obj.t = "list" -> List([k \in 1..Len(obj.v) |-> normalizeTextFields(obj.v[k])])
      [] obj.t = "rec" -> Rec([k \in DOMAIN obj.v |-> normalizeTextFields(obj.v[k])])
      [] OTHER -> obj

\* processedData._meta, options.metadata not given
metaOf(now) ==
    Rec((<<"g","e","n","e","r","a","t","e","d","A","t">> :> Str(now))
        @@ (<<"t","e","m","p","l","a","t","e","E","n","g","i","n","e">> :> Str(<<"D","O","C","X"," ","T","e","m","p","l","a","t","e"," ","E","n","g","i","n","e"," ","v","1",".","0">>)))

\* processedData._helpers
helpers ==
    Rec((<<"f","o","r","m","a","t","D","a","t","e">> :> Fn("formatDate"))
        @@ (<<"f","o","r","m","a","t","C","u","r","r","e","n","c","y">> :> Fn("formatCurrency"))
        @@ (<<"f","o","r","m","a","t","N","u","m","b","e","r">> :> Fn("formatNumber")))

\* preprocessing that works on the caller's object itself
preprocessDataInPlace(d, now) ==
    With(normalizeTextFields(
            Rec((<<"_","m","e","t","a">> :> metaOf(now)) @@ (<<"_","h","e","l","p","e","r","s">> :> helpers) @@ d.v)),
         LAMBDA processedData : [data |-> processedData, processedData |-> processedData])

\* preprocessData at the time now: [data, processedData], the caller's
\* object after the call and the object handed to the template engine
preprocessData(d, now) ==
    [data |-> d,
     processedData |->
        normalizeTextFields(
            Rec((<<"_","m","e","t","a">> :> metaOf(now)) @@ (<<"_","h","e","l","p","e","r","s">> :> helpers)
                @@ jsonClone(d).v))]

\* an archive of the one part written
fileAlone(files, path, content) == [q \in {path} |-> content]

\* zip.file(path, content): the parts of the archive after it
file(files, path, content) ==
    [q \in DOMAIN files \cup {path} |-> IF q = path THEN content ELSE files[q]]

\* the position an argument of slice stands for in an array of n elements:
\* a negative one counts from the end, and none lies outside the array
relativeIndex(k, n) == IF k < 0 THEN Max({n + k, 0}) ELSE Min({k, n})

\* dataArray.slice(from, to), positions counted from 0
slice(array, from, to) ==
    [k \in 1..(relativeIndex(to, Len(array)) - relativeIndex(from, Len(array))) |->
        array[relativeIndex(from, Len(array)) + k]]

\* --- the archives and the datasets a generator is given
letterXml ==
    <<"<","w",":","d","o","c","u","m","e","n","t",">","<","w",":","b","o","d","y",">","<","w",":","p",">","<","w",":","r",">","<","w",":","t",">","D","e","a","r"," ","$","{","n","a","m","e","}",",","<","/","w",":","t",">","<","/","w",":","r",">","<","/","w",":","p",">">>
    \o <<"<","w",":","p",">","<","w",":","r",">","<","w",":","t",">","t","h","a","n","k"," ","y","o","u",".","<","/","w",":","t",">","<","/","w",":","r",">","<","/","w",":","p",">","<","/","w",":","b","o","d","y",">","<","/","w",":","d","o","c","u","m","e","n","t",">">>
docxFiles(documentXml) ==
    (documentPath :> documentXml)
    @@ ("[Content_Types].xml" :> <<"<","T","y","p","e","s","/",">">>)
    @@ ("_rels/.rels" :> <<"<","R","e","l","a","t","i","o","n","s","h","i","p","s","/",">">>)
    @@ ("word/styles.xml" :> <<"<","w",":","s","t","y","l","e","s"," ","w",":","r","s","i","d","R","=","\"","0","0","A","1","\"","/",">">>)
Docx(length, documentXml) ==
    [length |-> length, signature |-> <<80, 75, 3, 4>>, readable |-> TRUE,
     files |-> docxFiles(documentXml)]
letter == Docx(MinSize, letterXml)
NoFiles == [q \in {} |-> <<>>]
Buffers ==
    {letter,
     Docx(MaxSize, letterXml),
     Docx(MinSize - 1, letterXml),
     Docx(MaxSize + 1, letterXml),
     [letter EXCEPT !.signature = <<80, 75, 1, 2>>],
     [letter EXCEPT !.signature = <<80, 75, 5, 6>>, !.files = NoFiles],
     [letter EXCEPT !.signature = <<80, 75, 7, 8>>],
     [letter EXCEPT !.readable = FALSE],
     [letter EXCEPT !.files = [q \in DOMAIN letter.files \ {"_rels/.rels"} |-> letter.files[q]]],
     Docx(MinSize, <<"<","w",":","d","o","c","u","m","e","n","t","/",">">>)}

MaxBatch == 2
Datasets == {Root(<<"n","a","m","e">>, Str(<<"A","n","n">>)), Root(<<"n","a","m","e">>, Str(<<" ","B","o">>)), Null}
BatchSizes == {0, 1, 2}
Times == {<<"2","0","2","6","-","0","1","-","0","1","T","0","0",":","0","0",":","0","0",".","0","0","0","Z">>, <<"2","0","2","6","-","0","1","-","0","1","T","0","0",":","0","0",":","0","1",".","0","0","0","Z">>}

-----------------------------------------------------------------------------
(* TemplateEngine.processAdvancedTemplate, one action for each pass *)

\* the template engine given an archive whose main document is c.tmpl
Init ==
    \E c \in Cases :
        /\ tmpl = c.tmpl
        /\ data = c.data
        /\ xml = c.tmpl
        /\ pc = "start"
        /\ host = 0
        /\ templateBuffer = Docx(MinSize, c.tmpl)
        /\ dataArray = <<c.data>>
        /\ given = <<c.data>>
        /\ batchSize = 0
        /\ results = <<>>
        /\ batchResults = <<>>
        /\ batchStart = 0
        /\ docIndex = 0
        /\ mergeIterations = 0
        /\ validation = NoValidation
        /\ scan = NoScan
        /\ batchDelay = 0
        /\ templates = NoDocuments
        /\ templateFiles = NoDocuments
        /\ calls = <<>>

\* documentXml = this.cleanWordXmlLikeLibreOffice(documentXml)
CleanWordXml ==
    /\ pc = "start"
    /\ xml' = cleanWordXmlLikeLibreOffice(xml)
    /\ pc' = "cleaned"
    /\ UNCHANGED <<tmpl, data, host, gen, others>>

\* a pass that may build host code: its text, and what it built
Pass(from, to, result) ==
    /\ pc = from
    /\ xml' = result.s
    /\ host' = host + result.h
    /\ pc' = to
    /\ UNCHANGED <<tmpl, data, gen, others>>

ProcessLoops == Pass("cleaned", "loops", processLoops(xml, data))
ProcessAdvancedTable == Pass("loops", "advancedTable", processAdvancedTable(xml, data))
ProcessTables == Pass("advancedTable", "tables", processTables(xml, data))
ProcessConditions == Pass("tables", "conditions", processConditions(xml, data))
ProcessRemainingVariables ==
    Pass("conditions", "done", processRemainingVariables(xml, data))

Next ==
    \/ CleanWordXml
    \/ ProcessLoops
    \/ ProcessAdvancedTable
    \/ ProcessTables
    \/ ProcessConditions
    \/ ProcessRemainingVariables

Spec == Init /\ [][Next]_vars

\* the main document processAdvancedTemplate makes of documentXml (the
\* tests make each text be computed before the next pass takes it)
rendered(documentXml, d) ==
    With(cleanWordXmlLikeLibreOffice(documentXml), LAMBDA cleaned :
    IF Len(cleaned) < 0 THEN cleaned ELSE
    With(processLoops(cleaned, d).s, LAMBDA loops :
    IF Len(loops) < 0 THEN loops ELSE
    With(processAdvancedTable(loops, d).s, LAMBDA advanced :
    IF Len(advanced) < 0 THEN advanced ELSE
    With(processTables(advanced, d).s, LAMBDA tables :
    IF Len(tables) < 0 THEN tables ELSE
    With(processConditions(tables, d).s, LAMBDA conditions :
    IF Len(conditions) < 0 THEN conditions ELSE
        processRemainingVariables(conditions, d).s)))))

-----------------------------------------------------------------------------
(* DocumentGenerator.batchGenerate, one action for each step *)

GenInit ==
    \E b \in Buffers, a \in Lists(Datasets, MaxBatch), n \in BatchSizes :
        /\ templateBuffer = b
        /\ dataArray = a
        /\ given = a
        /\ batchSize = n
        /\ results = <<>>
        /\ batchResults = <<>>
        /\ batchStart = 0
        /\ docIndex = 0
        /\ mergeIterations = 0
        /\ validation = NoValidation
        /\ scan = NoScan
        /\ batchDelay = 0
        /\ templates = NoDocuments
        /\ templateFiles = NoDocuments
        /\ calls = <<>>
        /\ tmpl = <<>>
        /\ data = Undef
        /\ xml = <<>>
        /\ pc = "batch"
        /\ host = 0

\* const batchSize = options.batchSize || 10
effectiveBatchSize == IF batchSize # 0 THEN batchSize ELSE DefaultBatchSize

\* i += batchSize.  Every i below -dataArray.length gives the same, an
\* empty batch and a loop that goes on: i is kept at one value for them all.
nextBatchStart == Max({batchStart + effectiveBatchSize, -(Len(dataArray) + 1)})

\* if (options.batchDelay && i + batchSize < dataArray.length)
delayed == batchDelay # 0 /\ batchStart + effectiveBatchSize < Len(dataArray)

\* const batch = dataArray.slice(i, i + batchSize)
batch == slice(dataArray, batchStart, batchStart + effectiveBatchSize)

\* the head of the loop of batchGenerate: the next batch is handed to
\* generateMultipleDocuments, or the results are returned
BatchGenerate ==
    /\ pc = "batch"
    /\ IF batchStart < Len(dataArray)
       THEN /\ batchResults' = <<>>
            /\ docIndex' = 0
            /\ pc' = "multiple"
       ELSE /\ pc' = "returned"
            /\ UNCHANGED <<batchResults, docIndex>>
    /\ UNCHANGED <<tmpl, data, xml, host, templateBuffer, dataArray, given,
                   batchSize, results, batchStart, others>>

\* the head of the loop of generateMultipleDocuments: generateDocument is
\* called for the next dataset of the batch, or the results of the batch
\* go back to batchGenerate, which appends them and moves on
GenerateMultipleDocuments ==
    /\ pc = "multiple"
    /\ IF docIndex < Len(batch)
       THEN /\ pc' = "validateBuffer"
            /\ UNCHANGED <<results, batchStart>>
       ELSE /\ results' = results \o batchResults
            /\ batchStart' = nextBatchStart
            /\ pc' = IF delayed THEN "sleep" ELSE "batch"
    /\ UNCHANGED <<tmpl, data, xml, host, templateBuffer, dataArray, given,
                   batchSize, batchResults, docIndex, others>>

\* the result generateMultipleDocuments pushes for a dataset.  The size
\* member, the length of the document, is left out: the model has no
\* lengths of generated archives.
NoDocument == [q \in {} |-> <<>>]
Failure(message) ==
    [index |-> docIndex, success |-> FALSE, document |-> NoDocument, error |-> message]
Success(document) ==
    [index |-> docIndex, success |-> TRUE, document |-> document, error |-> NoError]

\* a failure that ends the loop over the batch
ThrowEndsBatch(message) ==
    /\ batchResults' = Append(batchResults, Failure(message))
    /\ docIndex' = Len(batch)
    /\ pc' = "multiple"

\* generateDocument throws: the catch of generateMultipleDocuments records
\* the failure and the loop goes on.  The message is the one first thrown;
\* generateDocument puts 'Document generation failed: ' before it.
Throw(message) ==
    /\ batchResults' = Append(batchResults, Failure(message))
    /\ docIndex' = docIndex + 1
    /\ pc' = "multiple"

\* await this.validateDocxBuffer(templateBuffer)
ValidateDocxBuffer ==
    /\ pc = "validateBuffer"
    /\ IF validateDocxBuffer(templateBuffer) # NoError
       THEN Throw(validateDocxBuffer(templateBuffer))
       ELSE /\ pc' = "validateData"
            /\ UNCHANGED <<batchResults, docIndex>>
    /\ UNCHANGED <<tmpl, data, xml, host, templateBuffer, dataArray, given,
                   batchSize, results, batchStart, others>>

\* this.validateGenerationData(data)
ValidateGenerationData ==
    /\ pc = "validateData"
    /\ IF validateGenerationData(batch[docIndex + 1]) # NoError
       THEN Throw(validateGenerationData(batch[docIndex + 1]))
       ELSE /\ pc' = "preprocess"
            /\ UNCHANGED <<batchResults, docIndex>>
    /\ UNCHANGED <<tmpl, data, xml, host, templateBuffer, dataArray, given,
                   batchSize, results, batchStart, others>>

\* const processedData = this.preprocessData(data, options)
PreprocessData ==
    /\ pc = "preprocess"
    /\ \E now \in Times :
          With(preprocessData(batch[docIndex + 1], now), LAMBDA r :
              /\ data' = r.processedData
              /\ dataArray' = [dataArray EXCEPT ![batchStart + docIndex + 1] = r.data])
    /\ pc' = "open"
    /\ UNCHANGED <<tmpl, xml, host, templateBuffer, given, batchSize, results,
                   batchResults, batchStart, docIndex, others>>

\* processTemplate: new PizZip(templateBuffer) and the main document read
OpenTemplate ==
    /\ pc = "open"
    /\ tmpl' = templateBuffer.files[documentPath]
    /\ xml' = templateBuffer.files[documentPath]
    /\ pc' = "start"
    /\ UNCHANGED <<data, host, gen, others>>

\* zip.file('word/document.xml', processedXml) and zip.generate: the
\* document goes back through generateDocument, options.postProcess not
\* given, to generateMultipleDocuments, which records it
GenerateZip ==
    /\ pc = "done"
    /\ batchResults' =
          Append(batchResults,
                 Success(file(templateBuffer.files, documentPath, xml)))
    /\ docIndex' = docIndex + 1
    /\ pc' = "multiple"
    /\ UNCHANGED <<tmpl, data, xml, host, templateBuffer, dataArray, given,
                   batchSize, results, batchStart, others>>

GenNext ==
    \/ BatchGenerate
    \/ GenerateMultipleDocuments
    \/ ValidateDocxBuffer
    \/ ValidateGenerationData
    \/ PreprocessData
    \/ OpenTemplate
    \/ CleanWordXml
    \/ ProcessLoops
    \/ ProcessAdvancedTable
    \/ ProcessTables
    \/ ProcessConditions
    \/ ProcessRemainingVariables
    \/ GenerateZip

GenSpec == GenInit /\ [][GenNext]_vars

-----------------------------------------------------------------------------
(* What the rendered text is compared with *)

Done == pc = "done"
\* the list the loop of the template runs over
ListOf(key) == Prop(data, key).v
withoutLineBreaks(s) == SelectSeq(s, LAMBDA c : c # "\n")
boolText(b) == IF b THEN <<"t","r","u","e">> ELSE <<"f","a","l","s","e">>
\* the texts between each open and the next close, in order
RECURSIVE fragments(_, _, _)
fragments(s, open, close) ==
    LET b == indexOf(s, <<open>>, 1)
        e == indexOf(s, <<close>>, b + 1)
    IN  IF b = 0 \/ e = 0 THEN <<>>
        ELSE <<SubSeq(s, b + 1, e - 1)>> \o fragments(From(s, e + 1), open, close)

\* the rendering of the body of eachThisTemplate for one element
thisRendering(item) == <<"-">> \o escapeXml(JsString(item))
\* the rendering of the body of eachUsersTemplate for one element, its
\* line breaks left out
userRendering(u) ==
    <<"-"," ">> \o Prop(u, <<"n","a","m","e">>).v \o <<" ","(">> \o natToString(Prop(u, <<"a","g","e">>).v)
        \o <<")">>

\* C1: for an #each over a list L the output holds exactly Len(L)
\* renderings of the body, the k-th made with this = L[k], in the order of
\* the list, and none when L is empty (the line breaks of the output are
\* not looked at here: they are the matter of C10).
C1_EachRendersEveryElementInOrder ==
    /\ (Done /\ tmpl = eachThisTemplate) =>
          withoutLineBreaks(xml) =
             <<"A">> \o Concat([k \in 1..Len(ListOf(<<"i","t","e","m","s">>)) |->
                                thisRendering(ListOf(<<"i","t","e","m","s">>)[k])]) \o <<"Z">>
    /\ (Done /\ tmpl = eachUsersTemplate) =>
          withoutLineBreaks(xml) =
             Concat([k \in 1..Len(ListOf(<<"u","s","e","r","s">>)) |->
                       userRendering(ListOf(<<"u","s","e","r","s">>)[k])])

\* a list of three elements, not all the same, has been rendered
C1_Witness ==
    /\ Done
    /\ tmpl = eachThisTemplate
    /\ Len(ListOf(<<"i","t","e","m","s">>)) = 3
    /\ ListOf(<<"i","t","e","m","s">>)[1] # ListOf(<<"i","t","e","m","s">>)[3]
    /\ Len(SelectSeq(xml, LAMBDA c : c = "-")) = 3

\* C2: an interpolation of a path whose value is a string, a number or a
\* boolean emits the textual value of the path, XML-escaped once, at the
\* top level and in a loop body.
C2_InterpolationEmitsEscapedValue ==
    /\ (Done /\ tmpl = variableTemplate) =>
          xml = <<"[">> \o escapeXml(JsString(Prop(data, <<"v">>))) \o <<"]">>
    /\ (Done /\ tmpl = variableInLoopTemplate) =>
          xml = <<"[">> \o escapeXml(JsString(Prop(ListOf(<<"i","t","e","m","s">>)[1], <<"v">>)))
                  \o <<"]">>

\* the branch of the template t the element item is to give
branchOf(t, item) ==
    LET n == natToString(Prop(item, <<"n">>).v)
        str == Prop(item, <<"s">>).v
    IN  CASE t = ifNumberTemplate ->
                IF Prop(item, <<"n">>).v >= 2 THEN <<"H">> \o n ELSE <<"L">> \o n
          [] t = ifBooleanTemplate ->
                IF Prop(item, <<"o","k">>).v THEN <<"Y">> \o str ELSE <<"N">> \o str
          [] t = ifStringTemplate ->
                IF str = <<"x">> THEN <<"X">> \o n ELSE <<>>

C4_NoHostCode == host = 0

\* the rows the table is to have: the header and one row for each item
expectedRows(inRun) ==
    <<Row(inRun, <<"N","a","m","e">>)>>
        \o [k \in 1..Len(ListOf(<<"i","t","e","m","s">>)) |-> Row(inRun, ListOf(<<"i","t","e","m","s">>)[k].v)]

\* C5: after a render the rows that held only a loop opener or closer are
\* gone and the rows with user text are there: the one-column table over n
\* non-empty items has its header row and exactly n rows, one for each item.
C5_ControlRowsRemoved ==
    \A inRun \in BOOLEAN :
        (Done /\ tmpl = tableTemplate(inRun)) => xml = Table(expectedRows(inRun))

\* a table over two items has been rendered, its cells made of runs
C5_Witness ==
    /\ Done
    /\ tmpl = tableTemplate(TRUE)
    /\ Len(ListOf(<<"i","t","e","m","s">>)) = 2
    /\ Len(Matches(xml, tableRowRegex, 1)) = 3

\* C6: however the text of a directive is cut over adjacent runs, with or
\* without attributes or properties on the later run, the output is that
\* of the template with the directive in one run: ${user.name} gives the
\* name of the user.
C6_SplitRunsRenderAsOne ==
    (Done /\ tmpl \in SplitTemplates) =>
        xml = Paragraph(escapeXml(Prop(Prop(data, <<"u","s","e","r">>), <<"n","a","m","e">>).v))

\* the values that select the else-branch
Falsy == {Null, Bool(FALSE), Num(0), Str(<<>>), List(<<>>)}
branchText(value) == IF value \in Falsy THEN <<"[","E","]">> ELSE <<"[","T","]">>

\* C7: a condition on Null, false, 0, the empty string or the empty list
\* selects the else-branch and on any other value the then-branch, at the
\* top level and in a loop body alike.
C7_SameTruthinessEverywhere ==
    /\ (Done /\ tmpl = conditionTemplate) => xml = branchText(Prop(data, <<"v">>))
    /\ (Done /\ tmpl = conditionInLoopTemplate) =>
          xml = branchText(Prop(ListOf(<<"i","t","e","m","s">>)[1], <<"v">>))

\* index/count, first, last of the k-th of n iterations (k from 1)
metaText(k, n) ==
    natToString(k - 1) \o <<"/">> \o natToString(n)
positionText(k, n) == boolText(k = 1) \o <<",">> \o boolText(k = n)
membersOf(group) == Prop(group, <<"m","e","m","b","e","r","s">>).v
nameOf(group) == Prop(group, <<"n","a","m","e">>).v
\* what the inner body of nestedTemplate is to give for the group
innerTexts(group) ==
    [j \in 1..Len(membersOf(group)) |->
        nameOf(group) \o <<".">> \o membersOf(group)[j].v \o <<":">>
            \o metaText(j, Len(membersOf(group))) \o <<",">>
            \o positionText(j, Len(membersOf(group)))]
\* what the outer body of nestedTemplate is to give after its inner loop
outerTexts(groups) ==
    [k \in 1..Len(groups) |->
        nameOf(groups[k]) \o <<":">> \o metaText(k, Len(groups))]

C9_LoopBindingsStayInTheBody ==
    (Done /\ tmpl = nestedTemplate) =>
        /\ From(xml, indexOf(xml, <<"|">>, 1)) = <<"|","|","c","|","|","r","o","o","t">>
        /\ \A k \in 1..Len(ListOf(<<"g","r","o","u","p","s">>)) :
              fragments(xml, "<", ">")[k]
                 = nameOf(ListOf(<<"g","r","o","u","p","s">>)[k]) \o <<":">>
                       \o natToString(k - 1) \o <<"/">>
                       \o natToString(Len(ListOf(<<"g","r","o","u","p","s">>)))

\* a group whose inner loop ran twice is followed by another group
C9_Witness ==
    /\ Done
    /\ tmpl = nestedTemplate
    /\ Len(ListOf(<<"g","r","o","u","p","s">>)) >= 2
    /\ Len(membersOf(ListOf(<<"g","r","o","u","p","s">>)[1])) = 2
    /\ endsWith(xml, <<">","|","|","c","|","|","r","o","o","t">>)

\* C10: the expansion of a loop is the renderings of its body for the
\* elements one after the other, nothing put between them and no character
\* of the body left out.
C10_ExpansionIsConcatenation ==
    /\ (Done /\ tmpl = eachThisTemplate) =>
          xml = <<"A">> \o Concat([k \in 1..Len(ListOf(<<"i","t","e","m","s">>)) |->
                                   thisRendering(ListOf(<<"i","t","e","m","s">>)[k])]) \o <<"Z">>
    /\ (Done /\ tmpl = eachUsersTemplate) =>
          xml = Concat([k \in 1..Len(ListOf(<<"u","s","e","r","s">>)) |->
                          <<"\n">> \o userRendering(ListOf(<<"u","s","e","r","s">>)[k]) \o <<"\n">>])

\* C11: an expression that fails to evaluate leaves the placeholder
\* [ERROR: <expr>] where its directive stood, and the text around it,
\* the next interpolation included, is rendered as without the failure
C11_FailureLeavesPlaceholder ==
    (Done /\ tmpl \in FailingTemplates) =>
        xml = <<"a","[","E","R","R","O","R",":"," ","v"," ","+","]","b">> \o escapeXml(Prop(data, <<"w">>).v) \o <<"c">>

\* C15: a template with an #each or #if opener that has no closer at its
\* depth is not rendered: no document that still holds the opener is
\* returned
C15_MissingCloserAborts ==
    (Done /\ tmpl \in UnclosedTemplates) =>
        ~(includes(xml, <<"$","{","#","e","a","c","h"," ">>) \/ includes(xml, <<"$","{","#","i","f"," ">>))

\* what one formatter of a pipeline makes of the value x
PipelineStep(name, x) ==
    IF name = noSuchFormatter \/ name \in StylingFormatters THEN x
    ELSE applyFormatter(name, x, <<>>)

\* C16: the formatters of a pipeline apply left to right, each to the
\* result of the one before; an unknown name and a styling formatter hand
\* the value on unchanged to the formatters after them
C16_PipelineLeftToRight ==
    \A f1 \in PipelineNames, f2 \in PipelineNames :
        (Done /\ tmpl = PipelineTemplate(f1, f2)) =>
            xml = <<"[">>
                  \o escapeXml(JsString(OrEmpty(
                        PipelineStep(f2, PipelineStep(f1, Prop(data, <<"v">>))))))
                  \o <<"]">>

\* an unknown formatter before one that changes the value, and two
\* formatters whose order shows, have been rendered
C16_Witness ==
    /\ Done
    /\ \/ tmpl = PipelineTemplate(noSuchFormatter, <<"u","p","p","e","r">>) /\ xml = <<"["," ","A","B"," ","]">>
       \/ tmpl = PipelineTemplate(<<"t","r","i","m">>, <<"l","e","n","g","t","h">>) /\ xml = <<"[","2","]">>
       \/ tmpl = PipelineTemplate(<<"b","o","l","d">>, <<"l","o","w","e","r">>) /\ xml = <<"["," ","a","b"," ","]">>

\* C17: the argument after ':' reaches the formatter: currency:C writes
\* the amount with the symbol of the code C and number:N writes it with N
\* decimals; without an argument they are USD and 2 decimals
C17_ArgumentReachesFormatter ==
    /\ \A c \in CurrencyCodes :
          (Done /\ tmpl = currencyTemplate(c)) =>
              xml = <<"[">> \o formatCurrency(c, numberOrZero(Prop(data, <<"v">>))) \o <<"]">>
    /\ \A N \in Decimals :
          (Done /\ tmpl = numberTemplate(N)) =>
              xml = <<"[">> \o toFixed(numberOrZero(Prop(data, <<"v">>)), N) \o <<"]">>
    /\ (Done /\ tmpl = currencyDefaultTemplate) =>
          xml = <<"[">> \o formatCurrency(<<"U","S","D">>, numberOrZero(Prop(data, <<"v">>))) \o <<"]">>
    /\ (Done /\ tmpl = numberDefaultTemplate) =>
          xml = <<"[">> \o toFixed(numberOrZero(Prop(data, <<"v">>)), 2) \o <<"]">>

\* C18: a main document that holds no directive is returned as it was
\* given, whatever the data
C18_NoDirectiveIdentity == (Done /\ tmpl \in PlainTemplates) => xml = tmpl

\* batchGenerate has returned
Returned == pc = "returned"

\* the main document generateDocument makes of the letter for a dataset
letterFor(d) ==
    <<"<","w",":","d","o","c","u","m","e","n","t",">","<","w",":","b","o","d","y",">","<","w",":","p",">","<","w",":","r",">","<","w",":","t",">","D","e","a","r"," ">>
    \o escapeXml(trim(Prop(d, <<"n","a","m","e">>).v))
    \o <<",","<","/","w",":","t",">","<","/","w",":","r",">","<","/","w",":","p",">","<","w",":","p",">","<","w",":","r",">","<","w",":","t",">","t","h","a","n","k"," ","y","o","u",".","<","/","w",":","t",">","<","/","w",":","r",">","<","/","w",":","p",">","<","/","w",":","b","o","d","y",">","<","/","w",":","d","o","c","u","m","e","n","t",">">>

\* C12: batchGenerate over N datasets returns N results, the k-th of them
\* made from the k-th dataset and carrying the position of that dataset
\* in the input list as its index, for every batch size
C12_BatchIndexIsInputPosition ==
    Returned =>
        /\ Len(results) = Len(given)
        /\ \A k \in 1..Len(results) :
              /\ results[k].index = k - 1
              /\ results[k].success =>
                    results[k].document[documentPath] = letterFor(given[k])

\* the archive passes validateDocxBuffer
ValidArchive == validateDocxBuffer(templateBuffer) = NoError

\* C13: in a batch a dataset that fails is recorded with success = false
\* and its error in its own slot, every other dataset is rendered and
\* recorded with its own outcome, and the batch returns its results
C13_FailureStaysInItsSlot ==
    (Returned /\ ValidArchive) =>
        /\ Len(results) = Len(given)
        /\ \A k \in 1..Len(given) :
              IF validateGenerationData(given[k]) # NoError
              THEN /\ ~results[k].success
                   /\ results[k].error = validateGenerationData(given[k])
                   /\ results[k].document = NoDocument
              ELSE /\ results[k].success
                   /\ results[k].error = NoError
                   /\ results[k].document[documentPath] = letterFor(given[k])

\* a batch has returned with a failure before a success
C13_Witness ==
    /\ Returned
    /\ Len(results) = 2
    /\ ~results[1].success
    /\ results[2].success

\* the errors of the checks of the archive that the template fails
FailedChecks ==
    (IF templateBuffer.length < MinSize THEN {"DOCX file too small"} ELSE {})
    \cup (IF templateBuffer.length > MaxSize THEN {"DOCX file too large"} ELSE {})
    \cup (IF ~hasValidSignature(templateBuffer)
          THEN {"Invalid DOCX file: Not a valid ZIP archive"} ELSE {})
    \cup (IF ~(requiredFiles \subseteq DOMAIN templateBuffer.files)
          THEN {"Invalid DOCX structure. Missing required files"} ELSE {})

\* the template engine is at work
InEngine == pc \in {"open", "start", "cleaned", "loops", "advancedTable", "tables",
                    "conditions", "done"}

\* all the results there are so far
AllResults ==
    {results[k] : k \in 1..Len(results)} \cup {batchResults[k] : k \in 1..Len(batchResults)}

\* C14: generateDocument gives a document only for an archive that passes
\* the checks of its length, its signature and its three parts; for any
\* other it fails with the error of a check that failed, never runs the
\* template engine and gives no document
C14_OnlyCheckedArchivesRender ==
    FailedChecks # {} =>
        /\ ~InEngine
        /\ xml = <<>>
        /\ host = 0
        /\ \A r \in AllResults :
              /\ ~r.success
              /\ r.error \in FailedChecks
              /\ r.document = NoDocument

\* a dataset that is an object has been refused for the signature of the
\* archive
C14_Witness ==
    /\ Returned
    /\ ~hasValidSignature(templateBuffer)
    /\ Len(results) = 1
    /\ validateGenerationData(given[1]) = NoError
    /\ results[1].error = "Invalid DOCX file: Not a valid ZIP archive"

\* C19: a render changes the main document part only: every other part of
\* the template is in the document under its path with its content, and
\* no part is added or removed
C19_OtherPartsPassThrough ==
    \A r \in AllResults :
        r.success =>
            /\ DOMAIN r.document = DOMAIN templateBuffer.files
            /\ \A q \in DOMAIN r.document \ {documentPath} :
                  r.document[q] = templateBuffer.files[q]

\* a document has been generated whose main part differs from the
\* template's, from an archive that holds a part beyond the required ones
C19_Witness ==
    \E r \in AllResults :
        /\ r.success
        /\ r.document[documentPath] # templateBuffer.files[documentPath]
        /\ DOMAIN templateBuffer.files \ requiredFiles # {}

\* C20: the caller's datasets are, at every step of a render and after
\* it, successful or failed, what they were when they were handed over
C20_CallerDataUntouched == dataArray = given

\* a batch with a failure and a success has returned, and the object the
\* engine worked on last holds what preprocessData adds and trims
C20_Witness ==
    /\ Returned
    /\ \E r \in AllResults : r.success
    /\ \E r \in AllResults : ~r.success
    /\ Prop(data, <<"_","m","e","t","a">>) # Undef
    /\ Prop(data, <<"n","a","m","e">>) = Str(<<"B","o">>)
    /\ \E k \in 1..Len(given) : given[k] = Root(<<"n","a","m","e">>, Str(<<" ","B","o">>))

\* what a row of notIterableInLoopTemplate renders as
rowOf(row) ==
    IF Prop(row, <<"m">>).t = "list"
    THEN <<"<">> \o join([k \in 1..Len(Prop(row, <<"m">>).v) |->
                            <<"-">> \o escapeXml(JsString(Prop(row, <<"m">>).v[k]))], loopJoin)
         \o <<">">>
    ELSE <<"<",">">>

\* C21: an #each whose iterable is not a list expands, opener to closer,
\* to the empty text, and the text before and after it is rendered as usual
C21_NotIterableExpandsToNothing ==
    /\ (Done /\ tmpl = notIterableTemplate) =>
          xml = <<"A","&","l","t",";","x","&","g","t",";","[","]","&","l","t",";","x","&","g","t",";","Z">>
    /\ (Done /\ tmpl = notIterableInLoopTemplate) =>
          xml = join([k \in 1..Len(Prop(data, <<"r","o","w","s">>).v) |->
                        rowOf(Prop(data, <<"r","o","w","s">>).v[k])], loopJoin)

\* a loop over a text, and a loop over a number inside a loop over a
\* list, have been rendered
C21_Witness ==
    /\ Done
    /\ \/ tmpl = notIterableTemplate /\ Prop(data, <<"i","t","e","m","s">>) = Str(<<"a","b">>)
       \/ /\ tmpl = notIterableInLoopTemplate
          /\ Len(Prop(data, <<"r","o","w","s">>).v) = 2
          /\ Prop(Prop(data, <<"r","o","w","s">>).v[1], <<"m">>) = Num(5)

\* what the nested conditions leave for the flags a and b when each /if
\* closes the innermost open #if
nestedIfText(flags) ==
    <<"[">>
    \o (IF Prop(flags, <<"a">>).v
        THEN <<"X">> \o (IF Prop(flags, <<"b">>).v THEN <<"Y">> ELSE <<>>) \o <<"Z">>
        ELSE <<>>)
    \o <<"]">>

\* C22: in ${#if a}X${#if b}Y${/if}Z${/if} the outer #if spans up to the
\* last /if: X and Z are emitted when a holds, Y when a and b hold, and
\* nothing of them when a does not, at the top level and in a loop body
C22_CloserMatchesInnermostOpener ==
    /\ (Done /\ tmpl = nestedIfTemplate) => xml = nestedIfText(data)
    /\ (Done /\ tmpl = nestedIfInLoopTemplate) =>
          xml = nestedIfText(Prop(data, <<"i","t","e","m","s">>).v[1])

\* C23: in a loop body an interpolation of a member of the root data, and
\* a condition on it, give what they give at the top level
C23_RootNamesResolveInLoopBody ==
    /\ (Done /\ tmpl = rootVariableInLoopTemplate) =>
          xml = rendered(rootVariableTemplate, data)
    /\ (Done /\ tmpl = rootConditionInLoopTemplate) =>
          xml = rendered(rootConditionTemplate, data)

\* C24: the table-row cleaner works on the text all directives have been
\* expanded in: the output of a render holds no row whose only text is
\* empty, whichever directive left it empty
C24_NoEmptyRowInOutput ==
    (Done /\ tmpl \in LateRowTemplates) =>
        \A inRun \in BOOLEAN : ~includes(xml, Row(inRun, <<>>))

\* C27: text that comes from data is no directive: a value that reads
\* ${...}, ${#if ...} or ${#each ...} is in the output as it is in the data,
\* interpolated at the top level or in a loop.
C27_DataIsNeverADirective ==
    (Done /\ [tmpl |-> tmpl, data |-> data] \in InjectedCases) =>
        xml = <<"[">> \o Prop(data, <<"v">>).v \o <<"]">>

(***************************************************************************)
(* The normalizer followed step by step: one action for each of the four   *)
(* numbered steps of cleanWordXmlLikeLibreOffice, and one firing of        *)
(* MergeRuns for every iteration of its do-while loop.                     *)
(***************************************************************************)

\* the deepest nesting of split runs among the inputs
MaxNest == 21

RECURSIVE Repeat(_, _)
Repeat(s, n) == IF n = 0 THEN <<>> ELSE s \o Repeat(s, n - 1)

\* n runs closed one after the other, then n text elements opened: a pass
\* merges the innermost seam only, and that brings the next one together
Nest(n, between) ==
    <<"<","w",":","r",">","<","w",":","t",">","a">> \o Repeat(<<"<","/","w",":","t",">","<","/","w",":","r",">","<","w",":","r",">">>, n) \o between
        \o Repeat(<<"<","w",":","t",">">>, n) \o <<"b","<","/","w",":","t",">","<","/","w",":","r",">">>

Betweens == {<<>>, <<"<","w",":","p","r","o","o","f","E","r","r"," ","w",":","t","y","p","e","=","\"","s","p","e","l","l","S","t","a","r","t","\"","/",">">>}

MergeInputs == {Nest(n, between) : n \in 0..MaxNest, between \in Betweens}

MergeInit ==
    \E x \in MergeInputs :
        /\ tmpl = x
        /\ xml = x
        /\ pc = "revisions"
        /\ mergeIterations = 0
        /\ validation = NoValidation
        /\ scan = NoScan
        /\ batchDelay = 0
        /\ templates = NoDocuments
        /\ templateFiles = NoDocuments
        /\ calls = <<>>
        /\ data = Undef
        /\ host = 0
        /\ templateBuffer = Docx(MinSize, x)
        /\ dataArray = <<>>
        /\ given = <<>>
        /\ batchSize = 0
        /\ results = <<>>
        /\ batchResults = <<>>
        /\ batchStart = 0
        /\ docIndex = 0

\* 1. Remove Microsoft Word revision tracking attributes
RemoveRevisionAttributes ==
    /\ pc = "revisions"
    /\ xml' = removeRevisionAttributes(xml)
    /\ pc' = "proofErr"
    /\ UNCHANGED <<tmpl, data, host, gen, others>>

\* 2. Remove spell check and grammar markers; let iterations = 0
RemoveProofErr ==
    /\ pc = "proofErr"
    /\ xml' = removeProofErr(xml)
    /\ mergeIterations' = 0
    /\ pc' = "merge"
    /\ UNCHANGED <<tmpl, data, host, gen, validating, scanning, delaying,
                   registry>>

\* 3. one iteration of do { ... } while (xml.length < previousLength)
MergeRuns ==
    /\ pc = "merge"
    /\ xml' = mergePass(xml)
    /\ mergeIterations' = mergeIterations + 1
    /\ pc' = IF mergeIterations + 1 > MaxMergeIterations THEN "emptyRuns"
             ELSE IF Len(mergePass(xml)) < Len(xml) THEN "merge"
             ELSE "emptyRuns"
    /\ UNCHANGED <<tmpl, data, host, gen, validating, scanning, delaying,
                   registry>>

\* 4. Clean up empty runs
RemoveEmptyRuns ==
    /\ pc = "emptyRuns"
    /\ xml' = removeEmptyRuns(xml)
    /\ pc' = "cleaned"
    /\ UNCHANGED <<tmpl, data, host, gen, others>>

MergeNext ==
    \/ RemoveRevisionAttributes
    \/ RemoveProofErr
    \/ MergeRuns
    \/ RemoveEmptyRuns

MergeSpec == MergeInit /\ [][MergeNext]_vars

\* C25: the merge loop of the normalizer makes at most 20 passes, and when
\* it leaves the loop with fewer the text is a fixed point of a pass.
C25_AtMostTwentyMergePasses ==
    /\ mergeIterations <= MaxMergeIterations
    /\ (pc = "emptyRuns" /\ mergeIterations < MaxMergeIterations)
           => mergePass(xml) = xml


-----------------------------------------------------------------------------
(* TemplateValidator: the collections validateTemplate fills and the       *)
(* statistics it derives from them.  The warnings and errors of single     *)
(* placeholders are left out; no collection and no statistic modelled here *)
(* reads them.                                                             *)

\* the elements of a sequence without repetitions, in order of first
\* occurrence (the values of a Map keyed by the elements)
RECURSIVE distinct(_, _)
distinct(seq, seen) ==
    IF seq = <<>> THEN <<>>
    ELSE IF Head(seq) \in seen THEN distinct(Tail(seq), seen)
    ELSE <<Head(seq)>> \o distinct(Tail(seq), seen \cup {Head(seq)})

\* the text of each match
raws(s, ms) == [k \in 1..Len(ms) |-> SubSeq(s, ms[k].b, ms[k].e)]

\* /\$\{([^}]+)\}/g
placeholderRegex == <<L(<<"$","{">>), G("notBrace", 1), L(<<"}">>)>>

validatePlaceholders(x) == distinct(raws(x, Matches(x, placeholderRegex, 1)), {})

validateConditions(x) == raws(x, conditionMatches(x, 1))

\* /\$\{#each\s+([^}]+)\}([\s\S]*?)\$\{\/each\}/g
loopRegex ==
    <<L(<<"$","{","#","e","a","c","h">>), G("space", 1), G("notBrace", 1), L(<<"}">>), Lazy,
      L(<<"$","{","/","e","a","c","h","}">>)>>

\* regex.test(text) of a regex with the g flag: the search starts at
\* regex.lastIndex, which a match moves behind itself and a failure resets
test(regex, text, lastIndex) ==
    IF lastIndex > Len(text) THEN [found |-> FALSE, lastIndex |-> 0]
    ELSE With(Matches(text, regex, lastIndex + 1), LAMBDA ms :
            IF ms = <<>> THEN [found |-> FALSE, lastIndex |-> 0]
            ELSE [found |-> TRUE, lastIndex |-> ms[1].e])

\* for (const match of matches) { ... validation.loops.push(loop) }
RECURSIVE validateLoopsFrom(_, _, _, _)
validateLoopsFrom(x, matches, k, lastIndex) ==
    IF k > Len(matches) THEN <<>>
    ELSE With(SubSeq(x, matches[k].ends[4], matches[k].ends[5] - 1), LAMBDA content :
         With(test(loopRegex, content, lastIndex), LAMBDA t :
            <<[raw |-> SubSeq(x, matches[k].b, matches[k].e),
               array |-> trim(SubSeq(x, matches[k].ends[2], matches[k].ends[3] - 1)),
               content |-> content,
               nested |-> t.found]>>
            \o validateLoopsFrom(x, matches, k + 1, t.lastIndex)))

validateLoops(x) == validateLoopsFrom(x, Matches(x, loopRegex, 1), 1, 0)

\* /<w:tbl[^>]*>([\s\S]*?)<\/w:tbl>/g, the tables that hold a ${
tableRegex == <<L(<<"<","w",":","t","b","l">>), G("notGt", 0), L(<<">">>), Lazy, L(<<"<","/","w",":","t","b","l",">">>)>>

validateTables(x) ==
    SelectSeq(raws(x, Matches(x, tableRegex, 1)), LAMBDA raw : includes(raw, <<"$","{">>))

\* the matches of /\$\{[^}]*\|(word|...)[^}]*\}/g: a match runs from a ${
\* to the first } behind it and holds |word in between
RECURSIVE pipeMatches(_, _, _)
pipeMatches(x, words, from) ==
    With({i \in from..Len(x) :
            /\ StartsAt(x, i, <<"$","{">>)
            /\ indexOf(x, <<"}">>, i) # 0
            /\ \E w \in words : \E j \in (i + 2)..indexOf(x, <<"}">>, i) :
                    /\ StartsAt(x, j, <<"|">> \o w)
                    /\ j + Len(w) < indexOf(x, <<"}">>, i)}, LAMBDA C :
        IF C = {} THEN <<>>
        ELSE <<[b |-> Min(C), e |-> indexOf(x, <<"}">>, Min(C))]>>
                \o pipeMatches(x, words, indexOf(x, <<"}">>, Min(C)) + 1))

aggregationWords == {<<"s","u","m">>, <<"c","o","u","n","t">>, <<"a","v","g">>, <<"m","a","x">>, <<"m","i","n">>}
formattingWords == {<<"b","o","l","d">>, <<"i","t","a","l","i","c">>, <<"u","n","d","e","r","l","i","n","e">>, <<"s","i","z","e">>, <<"c","o","l","o","r">>}

validateAggregations(x) == raws(x, pipeMatches(x, aggregationWords, 1))
validateFormatting(x) == raws(x, pipeMatches(x, formattingWords, 1))

nestedOf(loops) == SelectSeq(loops, LAMBDA l : l.nested)

calculateComplexityScore(v) ==
    Len(v.placeholders) * 1 + Len(v.conditions) * 3 + Len(v.loops) * 5
        + Len(nestedOf(v.loops)) * 10 + Len(v.aggregations) * 4
        + Len(v.formatting) * 2

generateStatistics(v) ==
    [totalPlaceholders |-> Len(v.placeholders),
     totalConditions |-> Len(v.conditions),
     totalLoops |-> Len(v.loops),
     nestedLoops |-> Len(nestedOf(v.loops)),
     totalTables |-> Len(v.tables),
     totalAggregations |-> Len(v.aggregations),
     formattingDirectives |-> Len(v.formatting),
     complexityScore |-> calculateComplexityScore(v)]


\* templates of loops one after the other: a loop alone, a loop around one
\* loop, a loop around two loops, and directives of the other kinds
flatLoop == <<"$","{","#","e","a","c","h"," ","a","}","x","$","{","/","e","a","c","h","}">>
loopInLoop == <<"$","{","#","e","a","c","h"," ","a","}","<","$","{","#","e","a","c","h"," ","b","}","y","$","{","/","e","a","c","h","}",">","$","{","/","e","a","c","h","}">>
loopsInLoop == <<"$","{","#","e","a","c","h"," ","a","}","$","{","#","e","a","c","h"," ","b","}","y","$","{","/","e","a","c","h","}","$","{","#","e","a","c","h"," ","c","}","z","$","{","/","e","a","c","h","}","$","{","/","e","a","c","h","}">>
otherDirectives == <<"$","{","x","|","b","o","l","d","}","$","{","n","|","s","u","m",":","a","}","$","{","#","i","f"," ","a","}","t","$","{","/","i","f","}">>

MaxBlocks == 2

ValidatorInputs ==
    {Concat(blocks) :
        blocks \in Lists({flatLoop, loopInLoop, loopsInLoop, otherDirectives}, MaxBlocks)}

ValidateInit ==
    \E x \in ValidatorInputs :
        /\ tmpl = x
        /\ xml = x
        /\ validation = NoValidation
        /\ scan = NoScan
        /\ batchDelay = 0
        /\ templates = NoDocuments
        /\ templateFiles = NoDocuments
        /\ calls = <<>>
        /\ pc = "placeholders"
        /\ mergeIterations = 0
        /\ data = Undef
        /\ host = 0
        /\ templateBuffer = Docx(MinSize, x)
        /\ dataArray = <<>>
        /\ given = <<>>
        /\ batchSize = 0
        /\ results = <<>>
        /\ batchResults = <<>>
        /\ batchStart = 0
        /\ docIndex = 0

\* one call of validateTemplate: validation.<field> becomes found
Validate(from, field, found, to) ==
    /\ pc = from
    /\ validation' = [validation EXCEPT ![field] = found]
    /\ pc' = to
    /\ UNCHANGED <<tmpl, data, xml, host, gen, merging, scanning, delaying,
                   registry>>

ValidatePlaceholders ==
    Validate("placeholders", "placeholders", validatePlaceholders(xml), "conditions")

ValidateConditions ==
    Validate("conditions", "conditions", validateConditions(xml), "loops")

ValidateLoops == Validate("loops", "loops", validateLoops(xml), "tables")

ValidateTables == Validate("tables", "tables", validateTables(xml), "aggregations")

ValidateAggregations ==
    Validate("aggregations", "aggregations", validateAggregations(xml), "formatting")

ValidateFormatting ==
    Validate("formatting", "formatting", validateFormatting(xml), "statistics")

GenerateStatistics ==
    Validate("statistics", "statistics", generateStatistics(validation), "validated")

ValidateNext ==
    \/ ValidatePlaceholders
    \/ ValidateConditions
    \/ ValidateLoops
    \/ ValidateTables
    \/ ValidateAggregations
    \/ ValidateFormatting
    \/ GenerateStatistics

ValidateSpec == ValidateInit /\ [][ValidateNext]_vars

\* the body of the #each that opens at position b, up to the closer that
\* balances it, holds the opener of another loop
bodyHoldsLoop(x, b) ==
    With(indexOf(x, <<"}">>, b), LAMBDA c :
    With(findClose(x, c + 1, 1), LAMBDA close :
        close # 0 /\ includes(SubSeq(x, c + 1, close - 1), loopStartMarker)))

\* the loops the validator found whose body holds a loop
loopsAroundLoops(x) ==
    With(Matches(x, loopRegex, 1), LAMBDA ms :
        {k \in 1..Len(ms) : bodyHoldsLoop(x, ms[k].b)})

\* C26: a loop the validator reports is marked nested exactly when its body
\* holds another #each block, and statistics.nestedLoops and the term of
\* weight 10 in the complexity score count exactly those loops.
C26_NestedExactlyWhenBodyHoldsALoop ==
    pc = "validated" =>
        /\ \A k \in 1..Len(validation.loops) :
               validation.loops[k].nested <=> k \in loopsAroundLoops(tmpl)
        /\ validation.statistics.nestedLoops = Cardinality(loopsAroundLoops(tmpl))
        /\ validation.statistics.complexityScore =
               Len(validation.placeholders) + 3 * Len(validation.conditions)
                   + 5 * Len(validation.loops)
                   + 10 * Cardinality(loopsAroundLoops(tmpl))
                   + 4 * Len(validation.aggregations)
                   + 2 * Len(validation.formatting)


(***************************************************************************)
(* processLoops followed step by step: one firing for each iteration of    *)
(* its while (true) loop up to the search for the closing tag, one for     *)
(* each iteration of that search, and one for what follows the search.     *)
(***************************************************************************)

\* the text a loop block is replaced by
loopResultOf(resultXml, d, openIndex, openTagEndIndex, closeIndex) ==
    With(trim(SubSeq(resultXml, openIndex + Len(loopStartMarker),
                     openTagEndIndex - 1)), LAMBDA arrayPath :
    With(trimContent(SubSeq(resultXml, openTagEndIndex + 1, closeIndex - 1)),
         LAMBDA content :
    With(evaluate(arrayPath, d), LAMBDA arrayData :
        IF arrayData.v.t = "list"
        THEN join([k \in 1..Len(arrayData.v.v) |->
                      loopItem(content, d, arrayData.v.v, k - 1).s], loopJoin)
        ELSE <<>>)))

\* a scan that goes on from the opener it could not close
startAtOpener(openIndex, openTagEndIndex) == openIndex

\* startIndex = openTagEndIndex + 1
startAfterOpener(openIndex, openTagEndIndex) == openTagEndIndex + 1

\* --- templates with markers that balance, that do not, and in each other
scanTemplates ==
    {<<"a","$","{","#","e","a","c","h"," ","i","t","e","m","s","}","-","$","{","t","h","i","s","}","$","{","/","e","a","c","h","}","z">>,
     <<"a","$","{","#","e","a","c","h"," ","i","t","e","m","s","}","-","$","{","t","h","i","s","}","$","{","/","e","a","c","h","}","$","{","#","e","a","c","h"," ","i","t","e","m","s","}","+","$","{","/","e","a","c","h","}","z">>,
     <<"a","$","{","#","e","a","c","h"," ","i","t","e","m","s">>,
     <<"a","$","{","#","e","a","c","h"," ","i","t","e","m","s","}","-","$","{","t","h","i","s","}">>,
     <<"a","$","{","/","e","a","c","h","}","$","{","#","e","a","c","h"," ","i","t","e","m","s","}","-","$","{","t","h","i","s","}","$","{","/","e","a","c","h","}","z">>,
     <<"$","{","#","e","a","c","h"," ","i","t","e","m","s","}","<","$","{","#","e","a","c","h"," ","i","t","e","m","s","}","-","$","{","t","h","i","s","}","$","{","/","e","a","c","h","}",">","$","{","/","e","a","c","h","}">>,
     <<"$","{","#","e","a","c","h"," ","i","t","e","m","s","}","$","{","#","e","a","c","h"," ","i","t","e","m","s","}","$","{","#","e","a","c","h"," ","i","t","e","m","s","}","x","$","{","/","e","a","c","h","}","$","{","/","e","a","c","h","}">>,
     <<"$","{","#","e","a","c","h"," ","i","t","e","m","s","}","$","{","#","e","a","c","h"," ","i","t","e","m","s","}","x","$","{","/","e","a","c","h","}","$","{","/","e","a","c","h","}","$","{","/","e","a","c","h","}">>,
     <<"$","{","#","e","a","c","h"," ","n","o","n","e","}","$","{","#","e","a","c","h"," ","i","t","e","m","s","}","x","$","{","/","e","a","c","h","}">>}

scanItems == {Str(<<"a">>), Str(<<"$","{","#","e","a","c","h"," ","i","t","e","m","s","}","q","$","{","/","e","a","c","h","}">>)}

MaxItems == 2

ScanInit ==
    \E x \in scanTemplates, l \in Lists(scanItems, MaxItems) :
        /\ tmpl = x
        /\ xml = x
        /\ data = Root(<<"i","t","e","m","s">>, List(l))
        /\ scan = NoScan
        /\ batchDelay = 0
        /\ templates = NoDocuments
        /\ templateFiles = NoDocuments
        /\ calls = <<>>
        /\ pc = "scan"
        /\ host = 0
        /\ mergeIterations = 0
        /\ validation = NoValidation
        /\ templateBuffer = Docx(MinSize, x)
        /\ dataArray = <<>>
        /\ given = <<>>
        /\ batchSize = 0
        /\ results = <<>>
        /\ batchResults = <<>>
        /\ batchStart = 0
        /\ docIndex = 0

\* the head of the outer loop: the next start marker and the end of its
\* tag, or break; then depth = 1, currentIndex = openTagEndIndex + 1
FindOpener ==
    /\ pc = "scan"
    /\ With(indexOf(xml, loopStartMarker, scan.startIndex), LAMBDA openIndex :
       With(IF openIndex = 0 THEN 0 ELSE indexOf(xml, <<"}">>, openIndex),
            LAMBDA openTagEndIndex :
          IF openTagEndIndex = 0
          THEN pc' = "scanned" /\ UNCHANGED scan
          ELSE /\ pc' = "search"
               /\ scan' = [scan EXCEPT !.openIndex = openIndex,
                                       !.openTagEndIndex = openTagEndIndex,
                                       !.depth = 1,
                                       !.currentIndex = openTagEndIndex + 1,
                                       !.closeIndex = 0]))
    /\ UNCHANGED <<tmpl, data, xml, host, gen, merging, validating, delaying,
                   registry>>

\* while (depth > 0 && currentIndex < resultXml.length) goes on, and the
\* iteration does not break
searching ==
    /\ scan.depth > 0
    /\ scan.currentIndex <= Len(xml)
    /\ indexOf(xml, loopEndMarker, scan.currentIndex) # 0

\* one iteration of the search for the balanced closing tag
SearchCloser ==
    /\ pc = "search"
    /\ searching
    /\ With(indexOf(xml, loopStartMarker, scan.currentIndex), LAMBDA nextOpen :
       With(indexOf(xml, loopEndMarker, scan.currentIndex), LAMBDA nextClose :
          scan' = IF nextOpen # 0 /\ nextOpen < nextClose
                  THEN [scan EXCEPT !.depth = scan.depth + 1,
                                    !.currentIndex = nextOpen + 1]
                  ELSE IF scan.depth - 1 = 0
                       THEN [scan EXCEPT !.depth = 0, !.closeIndex = nextClose]
                  ELSE [scan EXCEPT !.depth = scan.depth - 1,
                                    !.currentIndex = nextClose + 1]))
    /\ UNCHANGED <<tmpl, data, xml, pc, host, gen, merging, validating, delaying,
                   registry>>

\* if (closeIndex === -1) { startIndex = openTagEndIndex + 1; continue }
SkipOpener ==
    /\ pc = "search"
    /\ ~searching
    /\ scan.closeIndex = 0
    /\ scan' = [scan EXCEPT
                  !.startIndex = startAfterOpener(scan.openIndex, scan.openTagEndIndex)]
    /\ pc' = "scan"
    /\ UNCHANGED <<tmpl, data, xml, host, gen, merging, validating, delaying,
                   registry>>

\* the search has ended with a closer: the block is replaced next
replacing == pc = "search" /\ ~searching /\ scan.closeIndex # 0

\* resultXml = beforeLoop + loopResult + afterLoop;
\* startIndex = beforeLoop.length + loopResult.length
ReplaceLoop ==
    /\ replacing
    /\ With(loopResultOf(xml, data, scan.openIndex, scan.openTagEndIndex,
                         scan.closeIndex), LAMBDA loopResult :
       With(SubSeq(xml, 1, scan.openIndex - 1), LAMBDA beforeLoop :
       With(From(xml, scan.closeIndex + Len(loopEndMarker)), LAMBDA afterLoop :
          /\ xml' = beforeLoop \o loopResult \o afterLoop
          /\ scan' = [scan EXCEPT
                        !.startIndex = Len(beforeLoop) + Len(loopResult) + 1])))
    /\ pc' = "scan"
    /\ UNCHANGED <<tmpl, data, host, gen, merging, validating, delaying,
                   registry>>

ScanNext ==
    \/ FindOpener
    \/ SearchCloser
    \/ SkipOpener
    \/ ReplaceLoop

ScanSpec == ScanInit /\ [][ScanNext]_vars

\* the loops run on: no step of them waits for anything.  The steps of
\* ReplaceLoop are the steps that leave a state of replacing for the head
\* of the scan; whether one can be taken does not depend on the replacement.
ScanFairSpec ==
    /\ ScanSpec
    /\ WF_vars(FindOpener)
    /\ WF_vars(SearchCloser)
    /\ WF_vars(SkipOpener)
    /\ WF_pc(replacing /\ pc' = "scan")

\* what a step of the two loops may do: end the scan, enter the search for
\* a closer, take that search forward or finish it, move the start of the
\* scan forward, or replace a block, which leaves less text to scan
ScanStep ==
    \/ pc' = "scanned"
    \/ pc = "scan" /\ pc' = "search"
    \/ /\ pc = "search" /\ pc' = "search"
       /\ scan'.currentIndex > scan.currentIndex \/ scan'.depth = 0
    \/ /\ pc = "search" /\ pc' = "scan"
       /\ \/ xml' = xml /\ scan'.startIndex > scan.startIndex
          \/ Len(xml') - scan'.startIndex < Len(xml) - scan.startIndex

\* C28: processLoops terminates: every step of its scan ends the scan, moves
\* the scan position forward or replaces one block, every step of the search
\* for a closer moves that search forward or ends it, and the scan ends.
C28_ProcessLoopsTerminates ==
    /\ [][ScanStep]_vars
    /\ <>(pc = "scanned")

\* a scan that skipped an opener without closer and replaced a block has ended
C28_Witness ==
    /\ pc = "scanned"
    /\ tmpl = <<"$","{","#","e","a","c","h"," ","i","t","e","m","s","}","$","{","#","e","a","c","h"," ","i","t","e","m","s","}","$","{","#","e","a","c","h"," ","i","t","e","m","s","}","x","$","{","/","e","a","c","h","}","$","{","/","e","a","c","h","}">>
    /\ xml # tmpl
    /\ scan.startIndex > Len(xml)

(***************************************************************************)
(* batchGenerate with the options a caller may give: any batchSize, as     *)
(* POST /api/generate-bulk hands on what parseInt makes of the request's   *)
(* (a negative number stays one under Math.min), and a batchDelay.         *)
(***************************************************************************)

AnyBatchSizes == {-1, 0, 1, MaxBatch + 1}
BatchDelays == {0, 100}

BatchInit ==
    \E b \in {letter, Docx(MinSize - 1, letterXml)}, a \in Lists(Datasets, MaxBatch),
       n \in AnyBatchSizes, delay \in BatchDelays :
        /\ templateBuffer = b
        /\ dataArray = a
        /\ given = a
        /\ batchSize = n
        /\ batchDelay = delay
        /\ templates = NoDocuments
        /\ templateFiles = NoDocuments
        /\ calls = <<>>
        /\ results = <<>>
        /\ batchResults = <<>>
        /\ batchStart = 0
        /\ docIndex = 0
        /\ mergeIterations = 0
        /\ validation = NoValidation
        /\ scan = NoScan
        /\ tmpl = <<>>
        /\ data = Undef
        /\ xml = <<>>
        /\ pc = "batch"
        /\ host = 0

\* await this.sleep(options.batchDelay): the timer fires
Sleep ==
    /\ pc = "sleep"
    /\ pc' = "batch"
    /\ UNCHANGED <<tmpl, data, xml, host, gen, others>>

BatchNext == GenNext \/ Sleep

BatchSpec == BatchInit /\ [][BatchNext]_vars

\* the positions of a call of batchGenerate
Positions ==
    {"batch", "multiple", "validateBuffer", "validateData", "preprocess", "open",
     "start", "cleaned", "loops", "advancedTable", "tables", "conditions", "done",
     "sleep", "returned"}

\* batchGenerate has not returned
underway == ~Returned

\* batchGenerate and what it awaits run on, and the timer of sleep fires:
\* from every position that is underway the next one is reached.  Every
\* step of BatchNext changes the position, and one is possible exactly when
\* the call is underway, whatever the step computes.
BatchFairSpec == BatchSpec /\ WF_pc(underway /\ pc' \in Positions)

\* C29: batchGenerate returns, with one result for each dataset, whatever
\* the batchSize; and it sleeps only when datasets are left for a further
\* batch.
C29_BatchReturnsOneResultPerDataset ==
    /\ <>Returned
    /\ [](Returned => Len(results) = Len(given))
    /\ [](pc = "sleep" => Len(results) < Len(given))

(***************************************************************************)
(* TemplateManager: one call of uploadTemplate and calls of updateTemplate *)
(* for the template it stores, each followed from one await to the next.  *)
(* Of a document of templates the model keeps version and fileSize, of one *)
(* of template_files the buffer.                                           *)
(***************************************************************************)

\* the calls of updateTemplate
MaxUpdates == 2

Upload == 0
Updates == 1..MaxUpdates

\* const templateId = uuidv4()
templateId == "id"

\* templateData of a call: its buffer stands for itself
templateDataOf(c) == [buffer |-> c, length |-> MinSize + c]

RegistryInit ==
    /\ templates = NoDocuments
    /\ templateFiles = NoDocuments
    /\ calls = [c \in {Upload} \cup Updates |->
                  [pc |-> IF c = Upload THEN "validate" ELSE "getTemplate",
                   template |-> Null, existingTemplate |-> Null]]
    /\ pc = "registry"
    /\ tmpl = <<>>
    /\ data = Undef
    /\ xml = <<>>
    /\ host = 0
    /\ templateBuffer = letter
    /\ dataArray = <<>>
    /\ given = <<>>
    /\ batchSize = 0
    /\ results = <<>>
    /\ batchResults = <<>>
    /\ batchStart = 0
    /\ docIndex = 0
    /\ mergeIterations = 0
    /\ validation = NoValidation
    /\ scan = NoScan
    /\ batchDelay = 0

\* what no step of the registry changes
elsewhere == <<tmpl, data, xml, pc, host, gen, merging, validating, scanning, delaying>>

\* the call c goes on to the position to
goto(c, to) == [calls EXCEPT ![c].pc = to]

\* the version an update writes: existingTemplate.version + 1
nextVersion(existingTemplate) == existingTemplate.version + 1

\* --- uploadTemplate
\* const validation = await this.validator.validateTemplate(...)
UploadValidate ==
    /\ calls[Upload].pc = "validate"
    /\ calls' = goto(Upload, "insertTemplate")
    /\ UNCHANGED <<templates, templateFiles, elsewhere>>

\* await db.collection('templates').insertOne(template)
UploadInsertTemplate ==
    /\ calls[Upload].pc = "insertTemplate"
    /\ templates' = (templateId :> [version |-> 1,
                                    fileSize |-> templateDataOf(Upload).length])
                        @@ templates
    /\ calls' = goto(Upload, "insertFile")
    /\ UNCHANGED <<templateFiles, elsewhere>>

\* await db.collection('template_files').insertOne(...); return
UploadInsertFile ==
    /\ calls[Upload].pc = "insertFile"
    /\ templateFiles' = (templateId :> [buffer |-> templateDataOf(Upload).buffer])
                            @@ templateFiles
    /\ calls' = goto(Upload, "resolved")
    /\ UNCHANGED <<templates, elsewhere>>

\* --- getTemplate, as updateTemplate calls it first (to = "validate") and
\* last (to = "resolved")
\* const template = await db.collection('templates').findOne(...)
FindTemplate(c, from, to) ==
    /\ calls[c].pc = from
    /\ calls' = IF templateId \in DOMAIN templates
                THEN [calls EXCEPT ![c].pc = to, ![c].template = templates[templateId]]
                ELSE [calls EXCEPT ![c].pc = "rejected"]
    /\ UNCHANGED <<templates, templateFiles, elsewhere>>

\* const file = await db.collection('template_files').findOne(...);
\* return { ...template, buffer }
FindFile(c, from, to) ==
    /\ calls[c].pc = from
    /\ calls' = IF to = "validate"
                THEN [calls EXCEPT ![c].pc = to,
                                   ![c].existingTemplate = calls[c].template]
                ELSE goto(c, to)
    /\ UNCHANGED <<templates, templateFiles, elsewhere>>

\* --- updateTemplate
\* const existingTemplate = await this.getTemplate(db, templateId);
\* if (!existingTemplate) throw new Error('Template not found')
UpdateGetTemplate(c) == FindTemplate(c, "getTemplate", "getFile")
UpdateGetFile(c) == FindFile(c, "getFile", "validate")

\* const validation = await this.validator.validateTemplate(...)
UpdateValidate(c) ==
    /\ calls[c].pc = "validate"
    /\ calls' = goto(c, "updateOne")
    /\ UNCHANGED <<templates, templateFiles, elsewhere>>

\* await db.collection('templates').updateOne({ _id }, { $set: updatedTemplate })
UpdateOne(c) ==
    /\ calls[c].pc = "updateOne"
    /\ templates' = IF templateId \in DOMAIN templates
                    THEN [templates EXCEPT ![templateId] =
                            [version |-> nextVersion(calls[c].existingTemplate),
                             fileSize |-> templateDataOf(c).length]]
                    ELSE templates
    /\ calls' = goto(c, "updateFile")
    /\ UNCHANGED <<templateFiles, elsewhere>>

\* await db.collection('template_files').updateOne(..., { upsert: true })
UpdateFile(c) ==
    /\ calls[c].pc = "updateFile"
    /\ templateFiles' = [q \in DOMAIN templateFiles \cup {templateId} |->
                            [buffer |-> templateDataOf(c).buffer]]
    /\ calls' = goto(c, "returnTemplate")
    /\ UNCHANGED <<templates, elsewhere>>

\* return this.getTemplate(db, templateId)
UpdateReturnTemplate(c) == FindTemplate(c, "returnTemplate", "returnFile")
UpdateReturnFile(c) == FindFile(c, "returnFile", "resolved")

RegistryNext ==
    \/ UploadValidate
    \/ UploadInsertTemplate
    \/ UploadInsertFile
    \/ \E c \in Updates : UpdateGetTemplate(c)
    \/ \E c \in Updates : UpdateGetFile(c)
    \/ \E c \in Updates : UpdateValidate(c)
    \/ \E c \in Updates : UpdateOne(c)
    \/ \E c \in Updates : UpdateFile(c)
    \/ \E c \in Updates : UpdateReturnTemplate(c)
    \/ \E c \in Updates : UpdateReturnFile(c)

RegistrySpec == RegistryInit /\ [][RegistryNext]_vars

\* every call has returned or thrown
settled == \A c \in DOMAIN calls : calls[c].pc \in {"resolved", "rejected"}

\* the calls of updateTemplate that returned
successfulUpdates == {c \in Updates : calls[c].pc = "resolved"}

\* C30: the version of a template counts its successful updates: with the
\* upload and n calls of updateTemplate returned, and none under way, it is
\* 1 + n, however the calls interleaved.
C30_VersionCountsUpdates ==
    settled =>
        /\ templateId \in DOMAIN templates
        /\ templates[templateId].version = 1 + Cardinality(successfulUpdates)

====
